---- MODULE Spec2Model ----
(***************************************************************************)
(* A model of the DBOS static analysis rule (src/dbos-rules.ts, lines      *)
(* 1-783): the walker over function bodies with its stack of scope frames, *)
(* the three determinism checkers run in Workflow functions, and the       *)
(* SQL-injection checker run in Transaction functions with its memoized,   *)
(* cycle-breaking literal-reducibility evaluation.                         *)
(*                                                                         *)
(* An AST node is a record [kind, text, sym, type, kids, line, column]:     *)
(* kids is what getChildren() returns (tokens included where the code      *)
(* looks at them), sym and type are the answers of the type checker for    *)
(* the node, line and column are where the node starts.  A node is         *)
(* identified by its path from the root of the compilation unit.           *)
(***************************************************************************)
EXTENDS Integers, Sequences, FiniteSets, TLC

VARIABLES
  unit,             \* the compilation unit handed to analyzeRootNode
  run,              \* which analysis of the unit this is: "none", "first", "second"
  earlier,          \* history: how the first analysis ended, once a second began
  pc,               \* "idle", "analyzing", "done" or "thrown"
  GLOBAL_TOOLS,     \* Nothing, or the tools bound by analyzeRootNode
  agenda,           \* the pending steps of the recursion, innermost first
  acts,             \* the active analyzeFunction calls: [fnDecl, stack]
  reports,          \* what was passed to eslintContext.report, in order
  log,              \* history: every node analyzeFrame was called on
  injection,        \* the running checkCallForInjection query, or Nothing
  nodeLRResults,    \* the memo of the running query
  rootProblemNodes, \* the problem nodes recorded by the running query
  lrStack,          \* the isLR calls in progress, innermost last
  lrSteps,          \* history: the isLR calls made by the running query
  queries           \* history: the checkCallForInjection calls that returned

vars == <<unit, run, earlier, pc, GLOBAL_TOOLS, agenda, acts, reports, log, injection,
          nodeLRResults, rootProblemNodes, lrStack, lrSteps, queries>>

Nothing == "Nothing"

----------------------------------------------------------------------------
(* The AST *)

MkNode(kind, text, sym, type, kids) ==
  [kind |-> kind, text |-> text, sym |-> sym, type |-> type, kids |-> kids,
   line |-> 0, column |-> 0]

Tok(text) == MkNode("Token", text, Nothing, "", <<>>)

TokenKinds == {"Token"}

RECURSIVE NodeAt(_, _)
NodeAt(n, p) == IF p = <<>> THEN n ELSE NodeAt(n.kids[Head(p)], Tail(p))

N(p) == NodeAt(unit, p)

getKind(p) == N(p).kind

getParent(p) == SubSeq(p, 1, Len(p) - 1)

getChildren(p) == [i \in 1..Len(N(p).kids) |-> p \o <<i>>]

\* a walk that does not go into the node of an assignment
forEachChild_NotIntoAssignments(p) ==
  IF getKind(p) = "BinaryExpression" /\ N(p \o <<2>>).text = "="
  THEN <<>>
  ELSE SelectSeq(getChildren(p), LAMBDA c: getKind(c) \notin TokenKinds)

\* forEachChild visits the child nodes, not the punctuation tokens
forEachChild(p) == SelectSeq(getChildren(p), LAMBDA c: getKind(c) \notin TokenKinds)

RECURSIVE SeqConcat(_)
SeqConcat(ss) == IF ss = <<>> THEN <<>> ELSE Head(ss) \o SeqConcat(Tail(ss))

RECURSIVE StrJoin(_)
StrJoin(ss) == IF ss = <<>> THEN "" ELSE Head(ss) \o StrJoin(Tail(ss))

RECURSIVE TextOf(_)
TextOf(n) ==
  IF n.kids = <<>> THEN n.text
  ELSE StrJoin([i \in 1..Len(n.kids) |-> TextOf(n.kids[i])])

getText(p) == TextOf(N(p))

\* every node of the subtree at p, in source order (a node before its children)
RECURSIVE Descendants(_)
Descendants(p) ==
  SeqConcat([i \in 1..Len(N(p).kids) |-> <<p \o <<i>>>> \o Descendants(p \o <<i>>)])

getDescendantsOfKind(p, kind) == SelectSeq(Descendants(p), LAMBDA d: getKind(d) = kind)

Range(s) == {s[i] : i \in 1..Len(s)}

getNodeSymbol(p) == N(p).sym

getTypeNameForTsMorphNode(p) == N(p).type

----------------------------------------------------------------------------
(* Constructors of the syntax the analyzed programs are written in *)

Id(name, sym, type) == MkNode("Identifier", name, sym, type, <<>>)

Str(text) == MkNode("StringLiteral", text, Nothing, "string", <<>>)

Num(text) == MkNode("NumericLiteral", text, Nothing, "number", <<>>)

This(type) == MkNode("ThisKeyword", "this", Nothing, type, <<>>)

OpTok(kind, text) == MkNode(kind, text, Nothing, "", <<>>)

Bin(l, op, r) == MkNode("BinaryExpression", "", Nothing, "", <<l, op, r>>)

Paren(e) == MkNode("ParenthesizedExpression", "", Nothing, e.type, <<Tok("("), e, Tok(")")>>)

Prop(obj, name) ==
  MkNode("PropertyAccessExpression", "", name.sym, name.type, <<obj, Tok("."), name>>)

Elem(obj, idx) ==
  MkNode("ElementAccessExpression", "", Nothing, "", <<obj, Tok("["), idx, Tok("]")>>)

Call(callee, args) ==
  MkNode("CallExpression", "", Nothing, "", <<callee, Tok("(")>> \o args \o <<Tok(")")>>)

New(callee, args) ==
  MkNode("NewExpression", "", Nothing, "", <<Tok("new"), callee, Tok("(")>> \o args \o <<Tok(")")>>)

Await(e) == MkNode("AwaitExpression", "", Nothing, "", <<Tok("await"), e>>)

ArrayLit(elems) ==
  MkNode("ArrayLiteralExpression", "", Nothing, "", <<Tok("[")>> \o elems \o <<Tok("]")>>)

ObjLit == MkNode("ObjectLiteralExpression", "", Nothing, "", <<Tok("{"), Tok("}")>>)

ArrowFn(params, body) ==
  MkNode("ArrowFunction", "", Nothing, "", <<Tok("(")>> \o params \o <<Tok(")"), Tok("=>"), body>>)

ExprStmt(e) == MkNode("ExpressionStatement", "", Nothing, "", <<e, Tok(";")>>)

VarDecl(name, init) ==
  MkNode("VariableDeclaration", "", name.sym, "", <<name, Tok("="), init>>)

VarDeclNoInit(name) == MkNode("VariableDeclaration", "", name.sym, "", <<name>>)

\* text is the declaration kind: "let", "const" or "var"
VarDeclList(declKind, decls) ==
  MkNode("VariableDeclarationList", declKind, Nothing, "", <<Tok(declKind)>> \o decls)

VarStmt(declKind, decls) ==
  MkNode("VariableStatement", "", Nothing, "", <<VarDeclList(declKind, decls), Tok(";")>>)

Block(stmts) == MkNode("Block", "", Nothing, "", <<Tok("{")>> \o stmts \o <<Tok("}")>>)

Param(name) == MkNode("Parameter", "", name.sym, "", <<name>>)

\* text is the decorator's name, as getName() returns it
Decorator(name) ==
  MkNode("Decorator", name, Nothing, "",
         <<Tok("@"), Call(Id(name, "fn:" \o name, "Function"), <<>>)>>)

FunctionDecl(name, params, body) ==
  MkNode("FunctionDeclaration", "", name.sym, "",
         <<Tok("function"), name, Tok("(")>> \o params \o <<Tok(")"), body>>)

\* `declare function f();`
FunctionDeclNoBody(name, params) ==
  MkNode("FunctionDeclaration", "", name.sym, "",
         <<Tok("function"), name, Tok("(")>> \o params \o <<Tok(")"), Tok(";")>>)

Method(decorators, name, params, body) ==
  MkNode("MethodDeclaration", "", name.sym, "",
         decorators \o <<name, Tok("(")>> \o params \o <<Tok(")"), body>>)

Constructor(params, body) ==
  MkNode("Constructor", "", Nothing, "",
         <<Tok("constructor"), Tok("(")>> \o params \o <<Tok(")"), body>>)

ClassDecl(name, members) ==
  MkNode("ClassDeclaration", "", name.sym, "",
         <<Tok("class"), name, Tok("{")>> \o members \o <<Tok("}")>>)

SourceFile(stmts) == MkNode("SourceFile", "", Nothing, "", stmts)

----------------------------------------------------------------------------
(* Shared values *)

awaitableTypes == {"WorkflowContext"}

assignmentTokenKinds ==
  {"EqualsToken", "PlusEqualsToken", "MinusEqualsToken", "AsteriskEqualsToken",
   "AsteriskAsteriskEqualsToken", "SlashEqualsToken", "PercentEqualsToken",
   "LessThanLessThanEqualsToken", "GreaterThanGreaterThanEqualsToken",
   "GreaterThanGreaterThanGreaterThanEqualsToken", "AmpersandEqualsToken",
   "BarEqualsToken", "BarBarEqualsToken", "AmpersandAmpersandEqualsToken",
   "QuestionQuestionEqualsToken", "CaretEqualsToken"}

\* Number.MAX_SAFE_INTEGER is 2^53 - 1; the largest integer of the model checker
\* stands for it (both exceed the argument count of every call)
MAX_SAFE_INTEGER == 2147483647

bannedFunctionsWithArgCountRanges ==
  [name \in {"Date", "Date.now", "Math.random", "console.log", "setTimeout",
             "bcrypt.hash", "bcrypt.compare"} |->
     CASE name = "Date"           -> [min |-> 0, max |-> 0]
       [] name = "Date.now"       -> [min |-> 0, max |-> 0]
       [] name = "Math.random"    -> [min |-> 0, max |-> 0]
       [] name = "console.log"    -> [min |-> 0, max |-> MAX_SAFE_INTEGER]
       [] name = "setTimeout"     -> [min |-> 1, max |-> MAX_SAFE_INTEGER]
       [] name = "bcrypt.hash"    -> [min |-> 3, max |-> 3]
       [] name = "bcrypt.compare" -> [min |-> 3, max |-> 3]]

\* a catalog that lacks the messages of the two bcrypt functions
errorMessages_NoBcrypt ==
  {"sqlInjection", "globalMutation", "awaitingOnNotAllowedType", "Date", "Date.now",
   "Math.random", "console.log", "setTimeout"}

\* the keys of the message catalog
errorMessages ==
  {"sqlInjection", "globalMutation", "awaitingOnNotAllowedType", "Date", "Date.now",
   "Math.random", "console.log", "setTimeout", "bcrypt.hash", "bcrypt.compare"}

ignoreAwaitsForCallsWithAContextParam == TRUE

ormClientInfoForRawSqlQueries ==
  [client \in {"PoolClient", "PrismaClient", "TypeORMEntityManager", "Knex"} |->
     CASE client = "PoolClient"           -> <<"TODO">>
       [] client = "PrismaClient"         -> <<"$queryRawUnsafe", "$executeRawUnsafe">>
       [] client = "TypeORMEntityManager" -> <<"TODO">>
       [] client = "Knex"                 -> <<"raw">>]

----------------------------------------------------------------------------
(* Utility functions *)

unpackParenthesizedExpression(p) == p \o <<2>>

RECURSIVE reduceNodeToLeftmostLeaf(_)
reduceNodeToLeftmostLeaf(p) ==
  IF getKind(p) = "ParenthesizedExpression"
  THEN reduceNodeToLeftmostLeaf(unpackParenthesizedExpression(p))
  ELSE IF N(p).kids = <<>> THEN p ELSE reduceNodeToLeftmostLeaf(p \o <<1>>)

getDecorators(fnDecl) ==
  SelectSeq(getChildren(fnDecl), LAMBDA c: getKind(c) = "Decorator")

functionHasDecoratorInSet(fnDecl, decoratorSet) ==
  \E m \in Range(getDecorators(fnDecl)) : N(m).text \in decoratorSet

getParameters(fnDecl) ==
  SelectSeq(getChildren(fnDecl), LAMBDA c: getKind(c) = "Parameter")

\* the body of a function-like declaration: <<>> when it has none
getBody(fnDecl) ==
  LET last == fnDecl \o <<Len(N(fnDecl).kids)>>
  IN  IF getKind(last) = "Block" THEN <<last>> ELSE <<>>

getLeft(p) == p \o <<1>>

getOperatorToken(p) == p \o <<2>>

getRight(p) == p \o <<3>>

\* an lvalue taken from the name of a property access instead of its leftmost leaf
getLAndRValuesIfAssignment_PropertyName(p) ==
  IF getKind(p) = "BinaryExpression"
     /\ getKind(getOperatorToken(p)) \in assignmentTokenKinds
  THEN LET left == getLeft(p)
           lhs == IF getKind(left) = "PropertyAccessExpression"
                  THEN left \o <<3>>
                  ELSE reduceNodeToLeftmostLeaf(left)
       IN  IF getKind(lhs) = "Identifier" THEN <<lhs, getRight(p)>> ELSE <<>>
  ELSE <<>>

\* <<lhs, rhs>> for an assignment whose left side reduces to an identifier, else <<>>
getLAndRValuesIfAssignment(p) ==
  IF getKind(p) = "BinaryExpression"
     /\ getKind(getOperatorToken(p)) \in assignmentTokenKinds
  THEN LET lhs == reduceNodeToLeftmostLeaf(getLeft(p))
       IN  IF getKind(lhs) = "Identifier" THEN <<lhs, getRight(p)>> ELSE <<>>
  ELSE <<>>

\* the callee of a call or `new` expression
getExpression(p) ==
  IF getKind(p) = "NewExpression" THEN p \o <<2>>
  ELSE IF getKind(p) = "AwaitExpression" THEN p \o <<2>>
  ELSE p \o <<1>>

getArguments(p) ==
  LET first == IF getKind(p) = "NewExpression" THEN 3 ELSE 2
  IN  SelectSeq(getChildren(p),
                LAMBDA c: c[Len(c)] > first /\ getKind(c) \notin TokenKinds)

----------------------------------------------------------------------------
(* The determinism checkers.  A checker answers <<>> (no error), <<id>> or *)
(* <<id, formatData>>.                                                     *)

\* isLocal that looks for the symbol in the current frame only
isLocal_CurrentFrameOnly(stack, symbol) == symbol \in stack[Len(stack)]

isLocal(stack, symbol) == \E i \in 1..Len(stack) : symbol \in stack[i]

mutatesGlobalVariable(node, fnDecl, stack) ==
  LET maybeLAndRValues == getLAndRValuesIfAssignment(node)
  IN  IF maybeLAndRValues = <<>> THEN <<>>
      ELSE LET lhsSymbol == getNodeSymbol(maybeLAndRValues[1])
           IN  IF lhsSymbol # Nothing /\ ~isLocal(stack, lhsSymbol)
               THEN <<"globalMutation">>
               ELSE <<>>

\* callsBannedFunction that does not look at the argument count
callsBannedFunction_AnyArgCount(node, fnDecl, stack) ==
  IF getKind(node) \in {"CallExpression", "NewExpression"}
  THEN LET expr == getExpression(node)
           kids == getChildren(expr)
           text == IF Len(kids) = 0 THEN getText(expr)
                   ELSE StrJoin([i \in 1..Len(kids) |-> getText(kids[i])])
       IN  IF text \in DOMAIN bannedFunctionsWithArgCountRanges THEN <<text>> ELSE <<>>
  ELSE <<>>

callsBannedFunction(node, fnDecl, stack) ==
  IF getKind(node) \in {"CallExpression", "NewExpression"}
  THEN LET expr == getExpression(node)
           kids == getChildren(expr)
           text == IF Len(kids) = 0 THEN getText(expr)
                   ELSE StrJoin([i \in 1..Len(kids) |-> getText(kids[i])])
       IN  IF text \in DOMAIN bannedFunctionsWithArgCountRanges
           THEN LET argCountRange == bannedFunctionsWithArgCountRanges[text]
                    argCount == Len(getArguments(node))
                IN  IF argCount >= argCountRange.min /\ argCount <= argCountRange.max
                    THEN <<text>>
                    ELSE <<>>
           ELSE <<>>
  ELSE <<>>

\* validTypeExistsInFunctionCallParams that looks at the first argument only
validTypeExistsInFunctionCallParams_FirstOnly(functionCall, validTypes) ==
  /\ getArguments(functionCall) # <<>>
  /\ getTypeNameForTsMorphNode(getArguments(functionCall)[1]) \in validTypes

validTypeExistsInFunctionCallParams(functionCall, validTypes) ==
  \E arg \in Range(getArguments(functionCall)) :
     getTypeNameForTsMorphNode(arg) \in validTypes

\* awaitsOnNotAllowedType that goes on to the type of whatever the awaited call
\* reduces to
awaitsOnNotAllowedType_AnyBase(node, fnDecl, stack) ==
  IF getKind(node) = "AwaitExpression"
  THEN LET functionCall == getExpression(node)
       IN  IF getKind(functionCall) # "CallExpression" THEN <<>>
           ELSE LET lhs == reduceNodeToLeftmostLeaf(functionCall)
                IN  IF getTypeNameForTsMorphNode(lhs) \in awaitableTypes THEN <<>>
                    ELSE IF ignoreAwaitsForCallsWithAContextParam
                            /\ validTypeExistsInFunctionCallParams(functionCall, awaitableTypes)
                         THEN <<>>
                         ELSE <<"awaitingOnNotAllowedType">>
  ELSE <<>>

awaitsOnNotAllowedType(node, fnDecl, stack) ==
  IF getKind(node) = "AwaitExpression"
  THEN LET functionCall == getExpression(node)
       IN  IF getKind(functionCall) # "CallExpression" THEN <<>>
           ELSE LET lhs == reduceNodeToLeftmostLeaf(functionCall)
                IN  IF getKind(lhs) \notin {"Identifier", "ThisKeyword"} THEN <<>>
                    ELSE IF getTypeNameForTsMorphNode(lhs) \in awaitableTypes THEN <<>>
                    ELSE IF ignoreAwaitsForCallsWithAContextParam
                            /\ validTypeExistsInFunctionCallParams(functionCall, awaitableTypes)
                         THEN <<>>
                         ELSE <<"awaitingOnNotAllowedType">>
  ELSE <<>>

----------------------------------------------------------------------------
(* Source positions.  A token is one column wide and every statement       *)
(* starts a line of its own.                                               *)

StatementKinds ==
  {"VariableStatement", "ExpressionStatement", "Block", "ForStatement",
   "FunctionDeclaration", "ClassDeclaration", "MethodDeclaration", "Constructor"}

\* the node with the positions of its subtree filled in, and the place after it;
\* at is [offset, line, lineStart]
RECURSIVE Place(_, _)
Place(n, at) ==
  LET here == IF n.kind \in StatementKinds /\ at.offset > 0
              THEN [offset |-> at.offset, line |-> at.line + 1, lineStart |-> at.offset]
              ELSE at
      RECURSIVE PlaceKids(_, _, _)
      PlaceKids(i, placed, cur) ==
        IF i > Len(n.kids) THEN [kids |-> placed, at |-> cur]
        ELSE LET k == Place(n.kids[i], cur)
             IN  PlaceKids(i + 1, Append(placed, k.node), k.at)
      inside == PlaceKids(1, <<>>, here)
  IN  [node |-> [n EXCEPT !.line = here.line,
                          !.column = 1 + here.offset - here.lineStart,
                          !.kids = inside.kids],
       at |-> IF n.kids = <<>> THEN [here EXCEPT !.offset = @ + 1] ELSE inside.at]

Parsed(n) == Place(n, [offset |-> 0, line |-> 1, lineStart |-> 0]).node

getNodePosInFile(p) == [line |-> N(p).line, column |-> N(p).column]

----------------------------------------------------------------------------
(* The SQL-injection checker *)

\* the kind of the variable statement of a declaration, <<>> when the declaration
\* list is not in a variable statement (a `for` initializer)
getDeclarationKind(decl) ==
  LET list == getParent(decl)
  IN  IF getKind(getParent(list)) = "VariableStatement" THEN <<N(list).text>> ELSE <<>>

\* a check that compares the lines only
identifierUsageIsValid_LinesOnly(identifierUsage, decl) ==
  LET declKind == getDeclarationKind(decl)
  IN  IF declKind = <<>> THEN "panic"
      ELSE IF declKind[1] = "var" THEN "valid"
      ELSE IF getNodePosInFile(decl).line <= getNodePosInFile(identifierUsage).line
           THEN "valid" ELSE "invalid"

\* "panic", or whether the declaration may be used at identifierUsage
identifierUsageIsValid(identifierUsage, decl) ==
  LET declKind == getDeclarationKind(decl)
  IN  IF declKind = <<>> THEN "panic"
      ELSE IF declKind[1] = "var" THEN "valid"
      ELSE LET identifierPos == getNodePosInFile(identifierUsage)
               declPos == getNodePosInFile(decl)
               declIsOnPrevLine == declPos.line < identifierPos.line
               declIsOnSameLineButBeforeIdentifier ==
                 declPos.line = identifierPos.line /\ declPos.column < identifierPos.column
           IN  IF declIsOnPrevLine \/ declIsOnSameLineButBeforeIdentifier
               THEN "valid" ELSE "invalid"

getInitializer(decl) ==
  IF Len(N(decl).kids) = 3 THEN <<decl \o <<3>>>> ELSE <<>>

Yield(tag, node) == [tag |-> tag, node |-> node]

\* the generator without its branch for parameters
RValuesOfChild_NoParameter(child, identifier) ==
  LET isTheSameButUsedInAnotherPlace ==
        /\ child # identifier
        /\ getKind(child) = "Identifier"
        /\ getNodeSymbol(child) = getNodeSymbol(identifier)
      parent == getParent(child)
  IN  IF ~isTheSameButUsedInAnotherPlace THEN <<>>
      ELSE IF getKind(parent) = "VariableDeclaration"
      THEN LET usage == identifierUsageIsValid(identifier, parent)
           IN  IF usage = "panic" THEN <<Yield("panic", parent)>>
               ELSE IF usage = "invalid" THEN <<>>
               ELSE IF getInitializer(parent) = <<>> THEN <<>>
               ELSE <<Yield("rvalue", getInitializer(parent)[1])>>
      ELSE LET maybeLAndRValues == getLAndRValuesIfAssignment(parent)
           IN  IF maybeLAndRValues # <<>> THEN <<Yield("rvalue", maybeLAndRValues[2])>>
               ELSE <<>>

\* the generator matching the other places of an identifier by name
RValuesOfChild_ByName(child, identifier) ==
  LET isTheSameButUsedInAnotherPlace ==
        /\ child # identifier
        /\ getKind(child) = "Identifier"
        /\ getText(child) = getText(identifier)
      parent == getParent(child)
  IN  IF ~isTheSameButUsedInAnotherPlace THEN <<>>
      ELSE IF getKind(parent) = "VariableDeclaration"
      THEN LET usage == identifierUsageIsValid(identifier, parent)
           IN  IF usage = "panic" THEN <<Yield("panic", parent)>>
               ELSE IF usage = "invalid" THEN <<>>
               ELSE IF getInitializer(parent) = <<>> THEN <<>>
               ELSE <<Yield("rvalue", getInitializer(parent)[1])>>
      ELSE LET maybeLAndRValues == getLAndRValuesIfAssignment(parent)
           IN  IF maybeLAndRValues # <<>> THEN <<Yield("rvalue", maybeLAndRValues[2])>>
               ELSE IF getKind(parent) = "Parameter"
               THEN <<Yield("NotRValueButFnParam", child)>>
               ELSE <<>>

\* the generator counting only the assignments that start before the identifier
RValuesOfChild_Preceding(child, identifier) ==
  LET isTheSameButUsedInAnotherPlace ==
        /\ child # identifier
        /\ getKind(child) = "Identifier"
        /\ getNodeSymbol(child) = getNodeSymbol(identifier)
      parent == getParent(child)
      precedes ==
        \/ N(parent).line < N(identifier).line
        \/ N(parent).line = N(identifier).line /\ N(parent).column < N(identifier).column
  IN  IF ~isTheSameButUsedInAnotherPlace THEN <<>>
      ELSE IF getKind(parent) = "VariableDeclaration"
      THEN LET usage == identifierUsageIsValid(identifier, parent)
           IN  IF usage = "panic" THEN <<Yield("panic", parent)>>
               ELSE IF usage = "invalid" THEN <<>>
               ELSE IF getInitializer(parent) = <<>> THEN <<>>
               ELSE <<Yield("rvalue", getInitializer(parent)[1])>>
      ELSE LET maybeLAndRValues == getLAndRValuesIfAssignment(parent)
           IN  IF maybeLAndRValues # <<>>
               THEN IF precedes THEN <<Yield("rvalue", maybeLAndRValues[2])>> ELSE <<>>
               ELSE IF getKind(parent) = "Parameter"
               THEN <<Yield("NotRValueButFnParam", child)>>
               ELSE <<>>

\* what the generator yields for one child of the scanned node
RValuesOfChild(child, identifier) ==
  LET isTheSameButUsedInAnotherPlace ==
        /\ child # identifier
        /\ getKind(child) = "Identifier"
        /\ getNodeSymbol(child) = getNodeSymbol(identifier)
      parent == getParent(child)
  IN  IF ~isTheSameButUsedInAnotherPlace THEN <<>>
      ELSE IF getKind(parent) = "VariableDeclaration"
      THEN LET usage == identifierUsageIsValid(identifier, parent)
           IN  IF usage = "panic" THEN <<Yield("panic", parent)>>
               ELSE IF usage = "invalid" THEN <<>>
               ELSE IF getInitializer(parent) = <<>> THEN <<>>
               ELSE <<Yield("rvalue", getInitializer(parent)[1])>>
      ELSE LET maybeLAndRValues == getLAndRValuesIfAssignment(parent)
           IN  IF maybeLAndRValues # <<>> THEN <<Yield("rvalue", maybeLAndRValues[2])>>
               ELSE IF getKind(parent) = "Parameter"
               THEN <<Yield("NotRValueButFnParam", child)>>
               ELSE <<>>

RECURSIVE getCorrespondingRValuesWithinNode(_, _)
getCorrespondingRValuesWithinNode(node, identifier) ==
  SeqConcat([i \in 1..Len(N(node).kids) |->
               getCorrespondingRValuesWithinNode(node \o <<i>>, identifier)
               \o RValuesOfChild(node \o <<i>>, identifier)])

\* the generator scanning the whole compilation unit after the parameters
getRValuesAssignedToIdentifier_WholeUnit(fnDecl, identifier) ==
  LET params == getParameters(fnDecl)
  IN  SeqConcat([i \in 1..Len(params) |->
                   getCorrespondingRValuesWithinNode(params[i], identifier)])
      \o getCorrespondingRValuesWithinNode(<<>>, identifier)

\* the yields of the generator in order; the consumer stops at the first "panic"
getRValuesAssignedToIdentifier(fnDecl, identifier) ==
  LET params == getParameters(fnDecl)
  IN  SeqConcat([i \in 1..Len(params) |->
                   getCorrespondingRValuesWithinNode(params[i], identifier)])
      \o getCorrespondingRValuesWithinNode(fnDecl, identifier)

getTemplateSpans(p) ==
  SelectSeq(getChildren(p), LAMBDA c: getKind(c) = "TemplateSpan")

\* isLRWithoutResultCache without its branch for parenthesized expressions
LRItems_NoParenthesized(node, fnDecl) ==
  LET kind == getKind(node)
  IN  IF kind \in {"StringLiteral", "NumericLiteral"} THEN <<>>
      ELSE IF kind = "TemplateExpression"
      THEN LET spans == getTemplateSpans(node)
           IN  [i \in 1..Len(spans) |->
                  IF Len(N(spans[i]).kids) # 2 THEN Yield("panic", spans[i])
                  ELSE Yield("rvalue", spans[i] \o <<1>>)]
      ELSE IF kind = "Identifier" THEN getRValuesAssignedToIdentifier(fnDecl, node)
      ELSE IF kind = "BinaryExpression"
      THEN <<Yield("rvalue", getLeft(node)), Yield("rvalue", getRight(node))>>
      ELSE <<Yield("notLR", node)>>

\* isLRWithoutResultCache with calls and tagged templates taken for literal-reducible
LRItems_CallsReducible(node, fnDecl) ==
  LET kind == getKind(node)
  IN  IF kind \in {"StringLiteral", "NumericLiteral", "CallExpression",
                   "TaggedTemplateExpression"} THEN <<>>
      ELSE IF kind = "TemplateExpression"
      THEN LET spans == getTemplateSpans(node)
           IN  [i \in 1..Len(spans) |->
                  IF Len(N(spans[i]).kids) # 2 THEN Yield("panic", spans[i])
                  ELSE Yield("rvalue", spans[i] \o <<1>>)]
      ELSE IF kind = "Identifier" THEN getRValuesAssignedToIdentifier(fnDecl, node)
      ELSE IF kind = "BinaryExpression"
      THEN <<Yield("rvalue", getLeft(node)), Yield("rvalue", getRight(node))>>
      ELSE IF kind = "ParenthesizedExpression"
      THEN <<Yield("rvalue", unpackParenthesizedExpression(node))>>
      ELSE <<Yield("notLR", node)>>

\* isLRWithoutResultCache with an identifier to which nothing is assigned taken for
\* not literal-reducible
LRItems_UnassignedNotReducible(node, fnDecl) ==
  LET kind == getKind(node)
  IN  IF kind \in {"StringLiteral", "NumericLiteral"} THEN <<>>
      ELSE IF kind = "TemplateExpression"
      THEN LET spans == getTemplateSpans(node)
           IN  [i \in 1..Len(spans) |->
                  IF Len(N(spans[i]).kids) # 2 THEN Yield("panic", spans[i])
                  ELSE Yield("rvalue", spans[i] \o <<1>>)]
      ELSE IF kind = "Identifier"
      THEN IF getRValuesAssignedToIdentifier(fnDecl, node) = <<>>
           THEN <<Yield("notLR", node)>>
           ELSE getRValuesAssignedToIdentifier(fnDecl, node)
      ELSE IF kind = "BinaryExpression"
      THEN <<Yield("rvalue", getLeft(node)), Yield("rvalue", getRight(node))>>
      ELSE IF kind = "ParenthesizedExpression"
      THEN <<Yield("rvalue", unpackParenthesizedExpression(node))>>
      ELSE <<Yield("notLR", node)>>

\* what isLRWithoutResultCache goes through for a node, every item to be found LR
LRItems(node, fnDecl) ==
  LET kind == getKind(node)
  IN  IF kind \in {"StringLiteral", "NumericLiteral"} THEN <<>>
      ELSE IF kind = "TemplateExpression"
      THEN LET spans == getTemplateSpans(node)
           IN  [i \in 1..Len(spans) |->
                  IF Len(N(spans[i]).kids) # 2 THEN Yield("panic", spans[i])
                  ELSE Yield("rvalue", spans[i] \o <<1>>)]
      ELSE IF kind = "Identifier" THEN getRValuesAssignedToIdentifier(fnDecl, node)
      ELSE IF kind = "BinaryExpression"
      THEN <<Yield("rvalue", getLeft(node)), Yield("rvalue", getRight(node))>>
      ELSE IF kind = "ParenthesizedExpression"
      THEN <<Yield("rvalue", unpackParenthesizedExpression(node))>>
      ELSE <<Yield("notLR", node)>>

\* <<args>> when the call is a raw SQL call site, else <<>>
maybeGetArgsFromRawSqlCallSite(callExpr) ==
  LET callExprWithoutParams == getExpression(callExpr)
      all == getDescendantsOfKind(callExprWithoutParams, "Identifier")
  IN  IF Len(all) # 2 /\ Len(all) # 3 THEN <<>>
      ELSE IF Len(all) = 3 /\ getTypeNameForTsMorphNode(all[1]) # "TransactionContext"
      THEN <<>>
      ELSE LET identifiers == IF Len(all) = 3 THEN Tail(all) ELSE all
               clientType == getTypeNameForTsMorphNode(identifiers[1])
           IN  IF clientType \in DOMAIN ormClientInfoForRawSqlQueries
                  /\ getText(identifiers[2]) \in Range(ormClientInfoForRawSqlQueries[clientType])
               THEN <<getArguments(callExpr)>>
               ELSE <<>>

\* the first set of checkers whose decorator the function has (the loop breaks there)
decoratorSetErrorCheckerMapping ==
  << [decoratorSet |-> {"Transaction"}, errorCheckers |-> <<"isSqlInjection">>],
     [decoratorSet |-> {"Workflow"},
      errorCheckers |-> <<"mutatesGlobalVariable", "callsBannedFunction",
                          "awaitsOnNotAllowedType">>] >>

\* the loop without its break: the checkers of every set whose decorator the function has
errorCheckersFor_NoBreak(fnDecl) ==
  SeqConcat([i \in 1..Len(decoratorSetErrorCheckerMapping) |->
               IF functionHasDecoratorInSet(fnDecl, decoratorSetErrorCheckerMapping[i].decoratorSet)
               THEN decoratorSetErrorCheckerMapping[i].errorCheckers
               ELSE <<>>])

errorCheckersFor(fnDecl) ==
  LET matching == {i \in 1..Len(decoratorSetErrorCheckerMapping) :
                     functionHasDecoratorInSet(fnDecl, decoratorSetErrorCheckerMapping[i].decoratorSet)}
  IN  IF matching = {} THEN <<>>
      ELSE decoratorSetErrorCheckerMapping[CHOOSE i \in matching : \A j \in matching : i <= j].errorCheckers

----------------------------------------------------------------------------
(* The analyzed programs.  A compilation unit is a class with one method,  *)
(* as the tests of the rule build them (makeSqlInjectionCode and           *)
(* makeDeterminismCode), whose body is a sequence of statements.           *)

MaxStmts == 2

MaxArgs == 3

MaxAwaitArgs == 2

RECURSIVE SeqsUpTo(_, _)
SeqsUpTo(S, n) ==
  IF n = 0 THEN {<<>>}
  ELSE LET shorter == SeqsUpTo(S, n - 1)
       IN  shorter \cup {Append(q, e) : q \in {r \in shorter : Len(r) = n - 1}, e \in S}

Eq == OpTok("EqualsToken", "=")

Plus == OpTok("PlusToken", "+")

Assign(lhs, op, rhs) == ExprStmt(Bin(lhs, op, rhs))

\* the assignment operators of the language, as the parser hands them over
AssignmentTokens ==
  {Eq, OpTok("PlusEqualsToken", "+="), OpTok("MinusEqualsToken", "-="),
   OpTok("AsteriskEqualsToken", "*="), OpTok("AsteriskAsteriskEqualsToken", "**="),
   OpTok("SlashEqualsToken", "/="), OpTok("PercentEqualsToken", "%="),
   OpTok("LessThanLessThanEqualsToken", "<<="),
   OpTok("GreaterThanGreaterThanEqualsToken", ">>="),
   OpTok("GreaterThanGreaterThanGreaterThanEqualsToken", ">>>="),
   OpTok("AmpersandEqualsToken", "&="), OpTok("BarEqualsToken", "|="),
   OpTok("BarBarEqualsToken", "||="), OpTok("AmpersandAmpersandEqualsToken", "&&="),
   OpTok("QuestionQuestionEqualsToken", "??="), OpTok("CaretEqualsToken", "^=")}

(* Transaction functions *)

CTXT == Id("ctxt", "ctxt", "TransactionContext")

P == Id("aParam", "aParam", "string")

X == Id("x", "x", "string")

Y == Id("y", "y", "string")

\* block-local redeclarations: the name of the outer binding, a symbol of their own
XS == Id("x", "x'", "string")

PS == Id("aParam", "aParam'", "string")

I == Id("i", "i", "string")

\* `(5).toString()`
Bad == Call(Prop(Paren(Num("5")), Id("toString", "toString", "Function")), <<>>)

RawCall(client, method, args) ==
  Call(Prop(Prop(CTXT, Id("client", "client", client)), Id(method, method, "Function")), args)

Raw(e) == ExprStmt(RawCall("Knex", "raw", <<e>>))

SqlAssignments ==
  {Assign(X, Eq, Bad), Assign(X, Eq, Y), Assign(X, Eq, Bin(X, Plus, X)), Assign(X, Eq, P),
   Assign(Y, Eq, Bad), Assign(P, Eq, Str("a"))}

SqlQueryArgs == {X, P, Bin(Str("a"), Plus, Paren(Bin(X, Plus, Y)))}

\* `{ const x = "lit"; raw(x); }` with the x of the block
ShadowBlock(s) == Block(<<VarStmt("const", <<VarDecl(s, Str("lit"))>>), Raw(s)>>)

\* `for (let i = "a";;) { raw(i); }`
ForStmt ==
  MkNode("ForStatement", "", Nothing, "",
         <<Tok("for"), Tok("("), VarDeclList("let", <<VarDecl(I, Str("a"))>>),
           Tok(";"), Tok(";"), Tok(")"), Block(<<Raw(I)>>)>>)

SqlStmts ==
  SqlAssignments \cup {Raw(e) : e \in SqlQueryArgs}
  \cup {ShadowBlock(s) : s \in {XS, PS}} \cup {ForStmt}

\* `let x = "a", y = x;`
SqlPrelude == <<VarStmt("let", <<VarDecl(X, Str("a")), VarDecl(Y, X)>>)>>

ClassWithMethod(decorators, params, body) ==
  ClassDecl(Id("TestClass", "TestClass", "TestClass"),
            <<Method([i \in 1..Len(decorators) |-> Decorator(decorators[i])],
                     Id("testMethod", "testMethod", "Function"), params, Block(body))>>)

FOO == Id("foo", "foo", "string")

\* `let foo = foo + "xyz"; raw(foo);`
SelfInitialized ==
  <<VarStmt("let", <<VarDecl(FOO, Bin(FOO, Plus, Str("xyz")))>>), Raw(FOO)>>

SqlUnits ==
  {SourceFile(<<ClassWithMethod(<<"Transaction">>, <<Param(CTXT), Param(P)>>, SqlPrelude \o body)>>) :
     body \in SeqsUpTo(SqlStmts, MaxStmts) \cup {SelfInitialized}}

(* Workflow functions *)

GX == Id("x", "gx", "number")

GY == Id("y", "gy", "object")

L == Id("l", "l", "number")

V == Id("v", "v", "number")

\* an identifier the type checker resolves to no symbol
U == Id("u", Nothing, "any")

One == Num("1")

Stmt(node, uses, declares) == [node |-> node, uses |-> uses, declares |-> declares]

\* a class in the method's body, with a Workflow method that assigns to l
NestedWorkflowClass ==
  ClassDecl(Id("Bar", "Bar", "Bar"),
            <<Method(<<Decorator("Workflow")>>, Id("w", "w", "Function"), <<>>,
                     Block(<<Assign(L, Eq, Num("9")),
                             VarStmt("let", <<VarDecl(Id("m", "m", "number"), One)>>),
                             Assign(Id("m", "m", "number"), Eq, Num("2"))>>))>>)

\* the statements that stand alone in a body
SingleStmts ==
  {Assign(Prop(GY, Id("a", "a", "number")), OpTok("PlusEqualsToken", "+="), One),
   Assign(Prop(Paren(GY), Id("a", "a", "number")), Eq, One),
   Assign(Elem(GY, Num("0")), OpTok("QuestionQuestionEqualsToken", "??="), One),
   Assign(Prop(This("TestClass"), Id("x", "TestClass.x", "number")), Eq, Num("4")),
   Assign(ArrayLit(<<GX>>), Eq, ArrayLit(<<One>>)),
   Assign(U, Eq, One),
   ExprStmt(Bin(GX, Plus, One)),
   Block(<<VarStmt("let", <<VarDecl(Id("b", "b", "number"), Num("5"))>>),
           Assign(Prop(Id("b", "b", "number"), Id("a", "a", "number")), Eq, One),
           Assign(GX, Eq, Num("2"))>>),
   FunctionDecl(Id("inner", "inner", "Function"), <<>>,
                Block(<<Assign(GX, OpTok("MinusEqualsToken", "-="), Num("6")),
                        VarStmt("let", <<VarDecl(Id("n", "n", "number"), One)>>),
                        Assign(Id("n", "n", "number"), Eq, Num("2"))>>))}

\* the statements that act on one another through the locals l and v
ScopeStmts ==
  {Stmt(Assign(GX, Eq, Num("4")), {}, {}),
   Stmt(Assign(L, Eq, One), {"l"}, {}),
   Stmt(VarStmt("let", <<VarDecl(L, Num("5"))>>), {}, {"l"}),
   Stmt(Block(<<Assign(L, Eq, Num("3")),
                Block(<<VarStmt("let", <<VarDecl(Id("c", "c", "number"), One)>>),
                        Assign(L, Eq, Id("c", "c", "number")),
                        Assign(GX, Eq, Id("c", "c", "number"))>>),
                Assign(L, Eq, Num("4"))>>), {"l"}, {}),
   Stmt(Block(<<VarStmt("var", <<VarDecl(V, One)>>)>>), {}, {"v"}),
   Stmt(Assign(V, Eq, Num("2")), {"v"}, {}),
   Stmt(NestedWorkflowClass, {"l"}, {})}

\* the bodies in which every local that is used is declared
ScopeBodies ==
  {[i \in 1..Len(b) |-> b[i].node] :
     b \in {q \in SeqsUpTo(ScopeStmts, MaxStmts) :
              UNION {q[i].uses : i \in 1..Len(q)} \subseteq UNION {q[i].declares : i \in 1..Len(q)}}}
  \cup {<<s>> : s \in SingleStmts}
  \cup {<<Assign(GX, op, One)>> : op \in AssignmentTokens}

Globals == VarStmt("let", <<VarDecl(GX, Num("3")), VarDecl(GY, ObjLit)>>)

WorkflowUnit(decorators, params, body) ==
  SourceFile(<<Globals, ClassWithMethod(decorators, params, body)>>)

ScopeUnits ==
  {WorkflowUnit(d, <<>>, body) : d \in {<<"Workflow">>, <<>>}, body \in ScopeBodies}

NumArgs(n) == [i \in 1..n |-> Num("1")]

Dotted(a, b) == Prop(Id(a, a, "any"), Id(b, b, "Function"))

Callees ==
  {Id("Date", "Date", "DateConstructor"), Id("setTimeout", "setTimeout", "Function"),
   Id("foo", "foo", "Function"), Dotted("Date", "now"), Dotted("Math", "random"),
   Dotted("Math", "floor"), Dotted("console", "log"), Dotted("bcrypt", "hash"),
   Dotted("bcrypt", "compare"), Paren(Id("Date", "Date", "DateConstructor")),
   Prop(Dotted("a", "Math"), Id("random", "random", "Function"))}

CallUnits ==
  {WorkflowUnit(<<"Workflow">>, <<>>, <<ExprStmt(e)>>) :
     e \in {Call(c, NumArgs(n)) : c \in Callees, n \in 0..MaxArgs}
           \cup {New(c, NumArgs(n)) : c \in Callees, n \in 0..MaxArgs}}

BaseTypes == {"WorkflowContext", "FooBar"}

Base(t) == Id("base", "base", t)

ArgOfType(t) == Id("arg", "arg", t)

AwaitArgs == SeqsUpTo({ArgOfType("WorkflowContext"), ArgOfType("number")}, MaxAwaitArgs)

Awaited ==
  {Call(Prop(Base(t), Id("foo", "foo", "Function")), args) : t \in BaseTypes, args \in AwaitArgs}
  \cup {Call(Base(t), args) : t \in BaseTypes, args \in AwaitArgs}
  \cup {Call(Prop(This(t), Id("foo", "foo", "Function")), args) : t \in BaseTypes, args \in AwaitArgs}
  \cup {Call(Prop(Call(Prop(Base(t), Id("invoke", "invoke", "Function")), inner),
                  Id("retrieveOrder", "retrieveOrder", "Function")), args) :
          t \in BaseTypes, inner \in {<<>>, <<ArgOfType("WorkflowContext")>>}, args \in AwaitArgs}
  \cup {Call(Prop(Paren(ObjLit), Id("foo", "foo", "Function")), args) : args \in AwaitArgs}
  \cup {New(Id("Set", "Set", "SetConstructor"), <<>>), Base("FooBar")}

AwaitUnits ==
  {WorkflowUnit(<<"Workflow">>, <<Param(Base("WorkflowContext"))>>, <<ExprStmt(Await(e))>>) :
     e \in Awaited}

(* Functions of every decoration *)

\* `console.log("Hello!"); x = 1; ctxt.client.raw((5).toString()); await base.foo();`
MixedBody ==
  <<ExprStmt(Call(Dotted("console", "log"), <<Str("Hello!")>>)),
    Assign(GX, Eq, One),
    Raw(Bad),
    ExprStmt(Await(Call(Prop(Base("FooBar"), Id("foo", "foo", "Function")), <<>>)))>>

DecoratorLists ==
  {<<>>, <<"Transaction">>, <<"Workflow">>, <<"Transaction", "Workflow">>,
   <<"Workflow", "Transaction">>, <<"Communicator">>}

MixedUnits ==
  {WorkflowUnit(d, <<Param(CTXT), Param(P)>>, MixedBody) : d \in DecoratorLists}

(* Call sites of raw queries *)

ClientTypes == {"Knex", "PrismaClient", "PoolClient", "TypeORMEntityManager"}

QueryMethods == {"raw", "$queryRawUnsafe", "$executeRawUnsafe", "query"}

\* `{bob: ctxt.client}`
ObjLitWith(name, value) ==
  MkNode("ObjectLiteralExpression", "", Nothing, "",
         <<Tok("{"),
           MkNode("PropertyAssignment", "", name.sym, "", <<name, Tok(":"), value>>),
           Tok("}")>>)

ClientOf(t) == Prop(CTXT, Id("client", "client", t))

Invoke(receiver, method, arg) ==
  ExprStmt(Call(Prop(receiver, Id(method, method, "Function")), <<arg>>))

\* the ways the tests reach the client: `ctxt.client.m(arg)`; `const db = ctxt.client;
\* db.m(arg)`; `const obj = {bob: ctxt.client}; obj.bob.m(arg)`; and through a
\* property of an outer object, `outer.ctxt.client.m(arg)`
CallSiteBodies(t, method, arg) ==
  LET db == Id("db", "db", t)
      obj == Id("obj", "obj", "object")
      bob == Id("bob", "bob", t)
      outer == Id("outer", "outer", "object")
      ctxtOfOuter == Id("ctxt", "outer.ctxt", "TransactionContext")
  IN  {<<Invoke(ClientOf(t), method, arg)>>,
       <<VarStmt("const", <<VarDecl(db, ClientOf(t))>>), Invoke(db, method, arg)>>,
       <<VarStmt("const", <<VarDecl(obj, ObjLitWith(bob, ClientOf(t)))>>),
         Invoke(Prop(obj, bob), method, arg)>>,
       <<Invoke(Prop(Prop(outer, ctxtOfOuter), Id("client", "client", t)), method, arg)>>}

\* `"bob" + (5).toString()` and `"foo"`
CallSiteArgs == {Bin(Str("bob"), Plus, Bad), Str("foo")}

CallSiteUnits ==
  {SourceFile(<<ClassWithMethod(<<"Transaction">>, <<Param(CTXT), Param(P)>>, body)>>) :
     body \in UNION {CallSiteBodies(t, method, arg) :
                       t \in ClientTypes, method \in QueryMethods, arg \in CallSiteArgs}}

(* Raw queries on a variable of the module *)

G == Id("g", "g", "string")

\* `let g = <init>;`, then possibly `g = (5).toString();`, at the level of the module
ModulePreludes ==
  {<<VarStmt("let", <<VarDecl(G, init)>>)>> \o assigned :
     init \in {Bad, Str("lit")}, assigned \in {<<>>, <<Assign(G, Eq, Bad)>>}}

ModuleVarBodies ==
  {<<Raw(G)>>, <<Assign(G, Eq, Bad), Raw(G)>>, <<Assign(G, Eq, Str("a")), Raw(G)>>}

ModuleVarUnits ==
  {SourceFile(prelude \o <<ClassWithMethod(<<"Transaction">>, <<Param(CTXT), Param(P)>>, body)>>) :
     prelude \in ModulePreludes, body \in ModuleVarBodies}

(* Raw queries on template strings *)

\* a template with substitutions: the head, then a span for each substitution, made
\* of the expression and the text up to the next substitution or the end (the texts
\* are written without the quotes of the template)
Tpl(exprs) ==
  MkNode("TemplateExpression", "", Nothing, "string",
         <<MkNode("TemplateHead", "${", Nothing, "", <<>>)>>
         \o [i \in 1..Len(exprs) |->
               MkNode("TemplateSpan", "", Nothing, "",
                      <<exprs[i],
                        IF i = Len(exprs)
                        THEN MkNode("TemplateTail", "}", Nothing, "", <<>>)
                        ELSE MkNode("TemplateMiddle", "}${", Nothing, "", <<>>)>>)])

\* a template without substitutions is a literal of a kind of its own
NoSubst(text) == MkNode("NoSubstitutionTemplateLiteral", text, Nothing, "string", <<>>)

Templates ==
  {NoSubst("select 1"), Tpl(<<Str("512")>>), Tpl(<<X>>), Tpl(<<P>>), Tpl(<<Bad>>),
   Tpl(<<X, Bad>>), Tpl(<<Bad, P>>),
   Tpl(<<Bin(Str("305"), Plus, Tpl(<<X>>)), Str("603"), Bin(X, Plus, Bin(Y, Plus, Str("foo")))>>),
   Tpl(<<Str("a"), Tpl(<<P>>)>>)}

TemplateUnits ==
  {SourceFile(<<ClassWithMethod(<<"Transaction">>, <<Param(CTXT), Param(P)>>,
                                SqlPrelude \o <<Raw(t)>>)>>) : t \in Templates}

(* Several functions and classes in one compilation unit *)

TransactionMethod(name, body) ==
  Method(<<Decorator("Transaction")>>, Id(name, name, "Function"),
         <<Param(CTXT), Param(P)>>, Block(body))

\* two methods in a class and a method in a second class, each with a raw query on
\* its parameter; the first method also holds the `for` statement
SeveralFunctionsUnits ==
  {SourceFile(<<ClassDecl(Id("TestClass", "TestClass", "TestClass"),
                          <<TransactionMethod("first", body), TransactionMethod("second", <<Raw(P)>>)>>),
                ClassDecl(Id("Other", "Other", "Other"),
                          <<TransactionMethod("third", <<Raw(P)>>)>>)>>) :
     body \in {<<ForStmt, Raw(P)>>, <<Raw(P), ForStmt>>, <<Raw(P), Raw(X)>>}}

(* Raw queries on what is and is not traced *)

\* bodies of a Transaction method: an expression outside the grammar of
\* literal-reducible values (a call on a literal, a tagged template, `new`, a property,
\* an array, an awaited value) reached as the argument, through a concatenation, a
\* template, an initializer or an assignment; declarations before and after the use
\* of the variable, on its line and on others; variables without a value; raw
\* queries with no, two and three arguments; and, after `let x = "a", y = x;`, the
\* cycle `x = y` with a further assignment to x
TraceUnits ==
  LET z == Id("z", "z", "string")
      a == Id("a", "a", "string")
      s == Id("s", "s", "string")
      w == Id("w", Nothing, "any")
      outside ==
        {Bad,
         Call(Prop(Str("x"), Id("toLowerCase", "toLowerCase", "Function")), <<>>),
         Call(Id("baz", "baz", "Function"), <<Str("x")>>),
         MkNode("TaggedTemplateExpression", "", Nothing, "string",
                <<Id("myFn", "myFn", "Function"), Tpl(<<Str("bar")>>)>>),
         New(Id("String", "String", "StringConstructor"), <<Str("x")>>),
         Prop(Id("obj", "obj", "object"), Id("field", "field", "string")),
         ArrayLit(<<Str("x")>>),
         Await(Str("x"))}
      reaching(e) ==
        {<<Raw(e)>>,
         <<Raw(Bin(Str("a"), Plus, Paren(e)))>>,
         <<Raw(Tpl(<<Str("a"), e>>))>>,
         <<VarStmt("const", <<VarDecl(s, e)>>), Raw(s)>>,
         <<VarStmt("let", <<VarDecl(s, Str("a"))>>), Assign(s, Eq, e), Raw(Bin(s, Plus, s))>>}
      hoisting ==
        UNION {{<<Raw(z), VarStmt(k, <<VarDecl(z, Bad)>>)>>,
                <<VarStmt(k, <<VarDecl(z, Bad)>>), Raw(z)>>,
                <<VarStmt(k, <<VarDecl(a, z), VarDecl(z, Bad)>>), Raw(a)>>,
                <<VarStmt(k, <<VarDecl(z, Bad), VarDecl(a, z)>>), Raw(a)>>,
                <<VarStmt(k, <<VarDecl(s, Str("a")), VarDecl(z, Bad)>>),
                  VarStmt(k, <<VarDecl(a, z)>>), Raw(a)>>,
                <<VarStmt(k, <<VarDeclNoInit(z)>>), Raw(z)>>,
                <<Raw(z), VarStmt(k, <<VarDecl(z, Str("a"))>>), Assign(z, Eq, Bad)>>} :
                 k \in {"let", "const", "var"}}
        \cup {<<Raw(U)>>, <<Raw(U), Assign(w, Eq, Bad)>>, <<Raw(Bin(Str("a"), Plus, U))>>}
      several ==
        {<<ExprStmt(RawCall("PrismaClient", "$executeRawUnsafe", <<Str("the-literal"), Num("5")>>))>>,
         <<ExprStmt(RawCall("PrismaClient", "$executeRawUnsafe", <<Bad, Num("5")>>))>>}
        \cup {<<ExprStmt(RawCall("Knex", "raw", args))>> :
                args \in {<<>>, <<Bad, Str("a")>>, <<Str("a"), Bad>>, <<P, Bad>>, <<Bad, P>>,
                          <<Str("a"), Str("b"), Bad>>, <<Str("a"), P, Bad>>,
                          <<Str("a"), Num("5"), Str("b")>>}}
      cycles ==
        {SqlPrelude \o <<Assign(X, Eq, Y), Assign(X, Eq, last)>> \o queried :
           last \in {Bad, P, Str("b"), Bin(X, Plus, Y)},
           queried \in {<<Raw(X)>>, <<Raw(Y)>>, <<Raw(X), Raw(Bin(Y, Plus, Str("a")))>>}}
  IN  {SourceFile(<<ClassWithMethod(<<"Transaction">>, <<Param(CTXT), Param(P)>>, body)>>) :
         body \in UNION {reaching(e) : e \in outside} \cup hoisting \cup several \cup cycles}

(* Assignments inside expressions, and assignments to parameters *)

\* bodies of a method with the parameters `ctxt` and `q`: comma sequences of
\* assignments, the swap through an array, a chain of assignments, an assignment as
\* the argument of a banned call, and assignments to a parameter and to a property of
\* a parameter, at the level of the body and in a block
MutationUnits ==
  LET ctxt == Id("ctxt", "ctxt", "WorkflowContext")
      q == Id("q", "q", "number")
      ya == Prop(GY, Id("a", "a", "number"))
      comma == OpTok("CommaToken", ",")
      local == VarStmt("let", <<VarDecl(L, Num("5"))>>)
      bodies ==
        {<<ExprStmt(Bin(Bin(GX, Eq, Bin(Num("23"), Plus, GX)), comma,
                        Bin(ya, Eq, Bin(Num("24"), Plus, GX))))>>,
         <<Assign(GX, Eq, Elem(ArrayLit(<<GY, Bin(GY, Eq, GX)>>), Num("0")))>>,
         <<local, ExprStmt(Bin(Bin(L, Eq, Bin(Num("23"), Plus, L)), comma,
                               Bin(ya, Eq, Bin(Num("24"), Plus, L))))>>,
         <<local, ExprStmt(Bin(Bin(ya, Eq, Bin(Num("23"), Plus, L)), comma,
                               Bin(L, Eq, Bin(Num("24"), Plus, L))))>>,
         <<Assign(GX, Eq, Bin(GY, Eq, One))>>,
         <<ExprStmt(Call(Dotted("console", "log"), <<Bin(GX, Eq, One)>>))>>,
         <<Assign(q, Eq, One)>>,
         <<Assign(Prop(ctxt, Id("x", "WorkflowContext.x", "number")), Eq, One)>>,
         <<local, Block(<<Assign(q, OpTok("PlusEqualsToken", "+="), L), Assign(L, Eq, q)>>)>>,
         <<Block(<<Assign(Prop(Paren(ctxt), Id("x", "WorkflowContext.x", "number")), Eq, One)>>)>>,
         <<VarStmt("var", <<VarDecl(q, Num("5"))>>), Assign(q, Eq, One)>>,
         <<Assign(q, Eq, One), VarStmt("var", <<VarDecl(q, Num("5"))>>)>>}
  IN  {WorkflowUnit(d, <<Param(ctxt), Param(q)>>, body) :
         d \in {<<"Workflow">>, <<>>}, body \in bodies}

Units ==
  {Parsed(u) : u \in SqlUnits \cup ScopeUnits \cup CallUnits \cup AwaitUnits \cup MixedUnits
                     \cup CallSiteUnits \cup ModuleVarUnits \cup TemplateUnits
                     \cup SeveralFunctionsUnits \cup TraceUnits \cup MutationUnits}

\* the units that are analyzed a second time: those of one statement, and the
\* families that do not grow with the bounds on the length of a body
RepeatedUnits ==
  {Parsed(u) : u \in {SourceFile(<<ClassWithMethod(<<"Transaction">>, <<Param(CTXT), Param(P)>>,
                                                    SqlPrelude \o body)>>) :
                         body \in SeqsUpTo(SqlStmts, 1) \cup {SelfInitialized}}
                     \cup CallUnits \cup AwaitUnits \cup MixedUnits \cup CallSiteUnits
                     \cup ModuleVarUnits \cup TemplateUnits \cup SeveralFunctionsUnits}

----------------------------------------------------------------------------
(* The walker.  The recursion of analyzeRootNode, analyzeClass,            *)
(* analyzeFunction and analyzeFrame is kept as an agenda of pending calls: *)
(* the head is the call made next, and what a call leaves to do after it   *)
(* returns is put in front of the rest.                                    *)

Step(op, node) == [op |-> op, node |-> node]

Steps(op, nodes) == [i \in 1..Len(nodes) |-> Step(op, nodes[i])]

EmptyData == [lineNumber |-> Nothing, theExpression |-> Nothing]

Report(node, response) ==
  [node |-> node,
   messageId |-> response[1],
   data |-> IF Len(response) = 1 THEN EmptyData ELSE response[2]]

getFunctions(p) ==
  SelectSeq(forEachChild(p), LAMBDA c: getKind(c) = "FunctionDeclaration")

getClasses(p) ==
  SelectSeq(forEachChild(p), LAMBDA c: getKind(c) = "ClassDeclaration")

getConstructors(theClass) ==
  SelectSeq(forEachChild(theClass), LAMBDA c: getKind(c) = "Constructor")

getMethods(theClass) ==
  SelectSeq(forEachChild(theClass), LAMBDA c: getKind(c) = "MethodDeclaration")

analyzeClass(theClass) ==
  Steps("analyzeFunction", getConstructors(theClass) \o getMethods(theClass))

\* a function that goes on with the stack of the function around it
newStack_Inherited(enclosing) ==
  IF enclosing = <<>> THEN <<{}>> ELSE enclosing[Len(enclosing)].stack

\* the scope stack analyzeFunction starts with, whatever the calls around it hold
newStack(enclosing) == <<{}>>

getCurrentFrame(stack) == stack[Len(stack)]

pushFrame(stack) == Append(stack, {})

\* popFrame that leaves the frame on the stack
popFrame_Kept(stack) == stack

popFrame(stack) == SubSeq(stack, 1, Len(stack) - 1)

\* the responses of the determinism checkers for a node, in the order they run
runDeterminismCheckers(errorCheckers, node, fnDecl, stack) ==
  SeqConcat([i \in 1..Len(errorCheckers) |->
    LET response ==
          CASE errorCheckers[i] = "mutatesGlobalVariable" ->
                 mutatesGlobalVariable(node, fnDecl, stack)
            [] errorCheckers[i] = "callsBannedFunction" ->
                 callsBannedFunction(node, fnDecl, stack)
            [] errorCheckers[i] = "awaitsOnNotAllowedType" ->
                 awaitsOnNotAllowedType(node, fnDecl, stack)
            [] OTHER -> <<>>
    IN  IF response = <<>> THEN <<>> ELSE <<Report(node, response)>>])

\* an isSqlInjection that checks the first argument only
argsToCheck_FirstOnly(errorCheckers, node) ==
  IF "isSqlInjection" \in Range(errorCheckers) /\ getKind(node) = "CallExpression"
  THEN LET maybeArgs == maybeGetArgsFromRawSqlCallSite(node)
       IN  IF maybeArgs = <<>> THEN <<>>
           ELSE IF maybeArgs[1] = <<>> THEN <<>> ELSE <<maybeArgs[1][1]>>
  ELSE <<>>

\* the arguments isSqlInjection goes through for a node: <<>> when there are none
argsToCheck(errorCheckers, node) ==
  IF "isSqlInjection" \in Range(errorCheckers) /\ getKind(node) = "CallExpression"
  THEN LET maybeArgs == maybeGetArgsFromRawSqlCallSite(node)
       IN  IF maybeArgs = <<>> THEN <<>> ELSE maybeArgs[1]
  ELSE <<>>

\* nodeLRResults.set(node, value)
SetResult(results, node, value) ==
  [n \in DOMAIN results \cup {node} |-> IF n = node THEN value ELSE results[n]]

\* isLR that leaves no mark before it looks into the node
MarkProvisional_None(results, node) == results

\* isLR that marks the node as not literal-reducible before it looks into it
MarkProvisional_False(results, node) == SetResult(results, node, FALSE)

\* the mark isLR leaves on a node before it looks into it
MarkProvisional(results, node) == SetResult(results, node, TRUE)

\* maps that are made once for the module and shared by every call: isLR answers
\* from the memo when the argument already has a result there
StartQuery_SharedMaps(call, fnDecl, args) ==
  IF args[1] \in DOMAIN nodeLRResults
  THEN /\ injection' = <<[call |-> call, fnDecl |-> fnDecl, args |-> args,
                           result |-> IF nodeLRResults[args[1]] THEN "LR" ELSE "notLR"]>>
       /\ lrStack' = <<>>
       /\ lrSteps' = <<[node |-> args[1], how |-> "cached", result |-> nodeLRResults[args[1]]]>>
       /\ UNCHANGED <<nodeLRResults, rootProblemNodes>>
  ELSE /\ injection' = <<[call |-> call, fnDecl |-> fnDecl, args |-> args, result |-> "running"]>>
       /\ nodeLRResults' = MarkProvisional(nodeLRResults, args[1])
       /\ rootProblemNodes' = rootProblemNodes
       /\ lrStack' = <<[node |-> args[1], todo |-> LRItems(args[1], fnDecl), failed |-> FALSE]>>
       /\ lrSteps' = <<[node |-> args[1], how |-> "fresh", result |-> TRUE]>>

\* a set of root problem nodes that is not made anew for the call
StartQuery_ProblemsKept(call, fnDecl, args) ==
  /\ injection' = <<[call |-> call, fnDecl |-> fnDecl, args |-> args, result |-> "running"]>>
  /\ nodeLRResults' = MarkProvisional(<<>>, args[1])
  /\ rootProblemNodes' = rootProblemNodes
  /\ lrStack' = <<[node |-> args[1], todo |-> LRItems(args[1], fnDecl), failed |-> FALSE]>>
  /\ lrSteps' = <<[node |-> args[1], how |-> "fresh", result |-> TRUE]>>

\* a memo that is kept from one call to the next
StartQuery_MemoKept(call, fnDecl, args) ==
  /\ injection' = <<[call |-> call, fnDecl |-> fnDecl, args |-> args, result |-> "running"]>>
  /\ nodeLRResults' = MarkProvisional(nodeLRResults, args[1])
  /\ rootProblemNodes' = {}
  /\ lrStack' = <<[node |-> args[1], todo |-> LRItems(args[1], fnDecl), failed |-> FALSE]>>
  /\ lrSteps' = <<[node |-> args[1], how |-> "fresh", result |-> TRUE]>>

\* the state of checkCallForInjection(callParam, fnDecl) as isLR(callParam) is called
StartQuery(call, fnDecl, args) ==
  /\ injection' = <<[call |-> call, fnDecl |-> fnDecl, args |-> args, result |-> "running"]>>
  /\ nodeLRResults' = MarkProvisional(<<>>, args[1])
  /\ rootProblemNodes' = {}
  /\ lrStack' = <<[node |-> args[1], todo |-> LRItems(args[1], fnDecl), failed |-> FALSE]>>
  /\ lrSteps' = <<[node |-> args[1], how |-> "fresh", result |-> TRUE]>>

\* no call of checkCallForInjection is under way; the maps of the call that
\* ended are garbage, and stay as they were until the next call makes its own
NoQuery ==
  /\ injection' = <<>>
  /\ lrStack' = <<>>
  /\ lrSteps' = <<>>
  /\ UNCHANGED <<nodeLRResults, rootProblemNodes>>

Init ==
  /\ unit \in Units
  /\ run = "none"
  /\ earlier = <<>>
  /\ pc = "idle"
  /\ GLOBAL_TOOLS = Nothing
  /\ agenda = <<>>
  /\ acts = <<>>
  /\ reports = <<>>
  /\ log = <<>>
  /\ queries = <<>>
  /\ injection = <<>>
  /\ nodeLRResults = <<>>
  /\ rootProblemNodes = {}
  /\ lrStack = <<>>
  /\ lrSteps = <<>>

\* the rule's Program listener calls analyzeRootNode, a first time and, for
\* the units of RepeatedUnits, a second time with a context of its own
AnalyzeRootNode ==
  /\ \/ pc = "idle"
     \/ pc \in {"done", "thrown"} /\ run = "first" /\ unit \in RepeatedUnits
  /\ run' = IF run = "none" THEN "first" ELSE "second"
  /\ earlier' = IF run = "none" THEN <<>> ELSE <<[pc |-> pc, reports |-> reports]>>
  /\ pc' = "analyzing"
  /\ GLOBAL_TOOLS' = run'
  /\ reports' = <<>>
  /\ log' = <<>>
  /\ queries' = <<>>
  /\ agenda' = Steps("analyzeFunction", getFunctions(<<>>))
               \o SeqConcat([i \in 1..Len(getClasses(<<>>)) |->
                               analyzeClass(getClasses(<<>>)[i])])
  /\ UNCHANGED <<unit, acts, injection, nodeLRResults, rootProblemNodes, lrStack, lrSteps>>

Walking(op) ==
  /\ pc = "analyzing"
  /\ injection = <<>>
  /\ agenda # <<>>
  /\ Head(agenda).op = op

AnalyzeFunction ==
  /\ Walking("analyzeFunction")
  /\ LET fnDecl == Head(agenda).node
         body == getBody(fnDecl)
     IN  IF body = <<>>
         THEN /\ agenda' = Tail(agenda)
              /\ acts' = acts
         ELSE /\ acts' = Append(acts, [fnDecl |-> fnDecl, stack |-> newStack(acts)])
              /\ agenda' = Steps("analyzeFrame", forEachChild(body[1]))
                           \o <<Step("return", fnDecl)>> \o Tail(agenda)
  /\ UNCHANGED <<unit, run, earlier, pc, GLOBAL_TOOLS, reports, log, queries, injection,
                 nodeLRResults, rootProblemNodes, lrStack, lrSteps>>

ReturnFromFunction ==
  /\ Walking("return")
  /\ acts' = SubSeq(acts, 1, Len(acts) - 1)
  /\ agenda' = Tail(agenda)
  /\ UNCHANGED <<unit, run, earlier, pc, GLOBAL_TOOLS, reports, log, queries, injection,
                 nodeLRResults, rootProblemNodes, lrStack, lrSteps>>

PopFrame ==
  /\ Walking("popFrame")
  /\ acts' = [acts EXCEPT ![Len(acts)].stack = popFrame(@)]
  /\ agenda' = Tail(agenda)
  /\ UNCHANGED <<unit, run, earlier, pc, GLOBAL_TOOLS, reports, log, queries, injection,
                 nodeLRResults, rootProblemNodes, lrStack, lrSteps>>

AnalyzeFrame ==
  /\ Walking("analyzeFrame")
  /\ LET node == Head(agenda).node
         act == acts[Len(acts)]
         fnDecl == act.fnDecl
         stack == act.stack
         kind == getKind(node)
         rest == Tail(agenda)
         children == Steps("analyzeFrame", forEachChild(node))
         errorCheckers == errorCheckersFor(fnDecl)
         checked == kind \notin {"ClassDeclaration", "FunctionDeclaration", "Block",
                                 "VariableDeclaration"}
         args == IF checked THEN argsToCheck(errorCheckers, node) ELSE <<>>
     IN  /\ log' = Append(log, [node |-> node, fnDecl |-> fnDecl, stack |-> stack,
                                errorCheckers |-> IF checked THEN errorCheckers ELSE <<>>])
         /\ agenda' =
              CASE kind = "ClassDeclaration" -> analyzeClass(node) \o rest
                [] kind = "FunctionDeclaration" -> <<Step("analyzeFunction", node)>> \o rest
                [] kind = "Block" -> children \o <<Step("popFrame", node)>> \o rest
                [] OTHER -> children \o rest
         /\ acts' =
              CASE kind = "Block" -> [acts EXCEPT ![Len(acts)].stack = pushFrame(@)]
                [] kind = "VariableDeclaration" /\ getNodeSymbol(node) # Nothing ->
                     [acts EXCEPT ![Len(acts)].stack[Len(stack)] = @ \cup {getNodeSymbol(node)}]
                [] OTHER -> acts
         /\ reports' =
              IF checked
              THEN reports \o runDeterminismCheckers(errorCheckers, node, fnDecl, stack)
              ELSE reports
         /\ IF args # <<>> THEN StartQuery(node, fnDecl, args) ELSE NoQuery
  /\ UNCHANGED <<unit, run, earlier, pc, GLOBAL_TOOLS, queries>>

Finish ==
  /\ pc = "analyzing"
  /\ injection = <<>>
  /\ agenda = <<>>
  /\ pc' = "done"
  /\ GLOBAL_TOOLS' = Nothing
  /\ UNCHANGED <<unit, run, earlier, agenda, acts, reports, log, queries, injection, nodeLRResults,
                 rootProblemNodes, lrStack, lrSteps>>

----------------------------------------------------------------------------
(* checkCallForInjection: isLR and isLRWithoutResultCache, one call or     *)
(* return at a time.  The frame of a call holds the node and the items     *)
(* isLRWithoutResultCache still has to find literal-reducible.             *)

Querying ==
  /\ pc = "analyzing"
  /\ injection # <<>>

Top == lrStack[Len(lrStack)]

NextItem == Head(Top.todo)

\* isLRWithoutResultCache looks at its next item: a sub-expression or an rvalue
\* assigned (isLR is called on it), the parameter marker or a node outside the grammar
IsLR ==
  /\ Querying
  /\ lrStack # <<>>
  /\ ~Top.failed
  /\ Top.todo # <<>>
  /\ NextItem.tag # "panic"
  /\ LET item == NextItem
         node == item.node
         here == Len(lrStack)
     IN  IF item.tag \in {"NotRValueButFnParam", "notLR"}
         THEN /\ rootProblemNodes' = rootProblemNodes \cup {Top.node}
              /\ lrStack' = [lrStack EXCEPT ![here].failed = TRUE]
              /\ UNCHANGED <<nodeLRResults, lrSteps>>
         ELSE IF node \in DOMAIN nodeLRResults
         THEN /\ lrStack' = IF nodeLRResults[node]
                            THEN [lrStack EXCEPT ![here].todo = Tail(@)]
                            ELSE [lrStack EXCEPT ![here].failed = TRUE]
              /\ lrSteps' = Append(lrSteps,
                              [node |-> node,
                               how |-> IF \E i \in 1..Len(lrStack) : lrStack[i].node = node
                                       THEN "reentered" ELSE "cached",
                               result |-> nodeLRResults[node]])
              /\ UNCHANGED <<nodeLRResults, rootProblemNodes>>
         ELSE /\ nodeLRResults' = MarkProvisional(nodeLRResults, node)
              /\ lrStack' = Append([lrStack EXCEPT ![here].todo = Tail(@)],
                                   [node |-> node,
                                    todo |-> LRItems(node, injection[1].fnDecl),
                                    failed |-> FALSE])
              /\ lrSteps' = Append(lrSteps, [node |-> node, how |-> "fresh", result |-> TRUE])
              /\ UNCHANGED rootProblemNodes
  /\ UNCHANGED <<unit, run, earlier, pc, GLOBAL_TOOLS, agenda, acts, reports, log, queries, injection>>

\* isLRWithoutResultCache returns and isLR stores the result
IsLRReturn ==
  /\ Querying
  /\ lrStack # <<>>
  /\ IF Top.failed THEN TRUE ELSE Top.todo = <<>>
  /\ LET wasLR == ~Top.failed
         callers == SubSeq(lrStack, 1, Len(lrStack) - 1)
     IN  /\ nodeLRResults' = SetResult(nodeLRResults, Top.node, wasLR)
         /\ lrStack' = IF callers # <<>> /\ ~wasLR
                       THEN [callers EXCEPT ![Len(callers)].failed = TRUE]
                       ELSE callers
         /\ injection' = IF callers = <<>>
                         THEN <<[injection[1] EXCEPT !.result = IF wasLR THEN "LR" ELSE "notLR"]>>
                         ELSE injection
  /\ UNCHANGED <<unit, run, earlier, pc, GLOBAL_TOOLS, agenda, acts, reports, log, queries,
                 rootProblemNodes, lrSteps>>

\* isLR(callParam) has returned: the error, the next argument, or no error
CheckCallForInjectionReturn ==
  /\ Querying
  /\ lrStack = <<>>
  /\ LET q == injection[1]
         callParam == q.args[1]
         wasLR == q.result = "LR"
         discoveredNode == CHOOSE n \in rootProblemNodes : TRUE
     IN  /\ IF wasLR THEN TRUE ELSE Cardinality(rootProblemNodes) = 1
         /\ queries' = Append(queries,
                         [call |-> q.call, callParam |-> callParam, fnDecl |-> q.fnDecl,
                          wasLR |-> wasLR, nodeLRResults |-> nodeLRResults,
                          rootProblemNodes |-> rootProblemNodes, lrSteps |-> lrSteps])
         /\ reports' =
              IF wasLR THEN reports
              ELSE Append(reports,
                     Report(q.call,
                            <<"sqlInjection",
                              [lineNumber |-> getNodePosInFile(discoveredNode).line,
                               theExpression |-> getText(discoveredNode)]>>))
         /\ IF wasLR /\ Len(q.args) > 1
            THEN StartQuery(q.call, q.fnDecl, Tail(q.args))
            ELSE NoQuery
  /\ UNCHANGED <<unit, run, earlier, pc, GLOBAL_TOOLS, agenda, acts, log>>

\* a panic is under way
Panicking ==
  IF lrStack = <<>>
  THEN injection[1].result = "notLR" /\ Cardinality(rootProblemNodes) # 1
  ELSE IF Top.failed THEN FALSE
  ELSE IF Top.todo = <<>> THEN FALSE
  ELSE NextItem.tag = "panic"

\* an analyzeRootNode without its `finally`
Panic_ToolsKept ==
  /\ Querying
  /\ Panicking
  /\ pc' = "thrown"
  /\ agenda' = <<>>
  /\ acts' = <<>>
  /\ NoQuery
  /\ UNCHANGED <<unit, run, earlier, GLOBAL_TOOLS, reports, log, queries>>

\* a walker that gives up the check of the node and goes on with the rest of the walk
Panic_Isolated ==
  /\ Querying
  /\ Panicking
  /\ NoQuery
  /\ UNCHANGED <<unit, run, earlier, pc, GLOBAL_TOOLS, agenda, acts, reports, log, queries>>

\* the error leaves analyzeRootNode through its `finally`
Panic ==
  /\ Querying
  /\ Panicking
  /\ pc' = "thrown"
  /\ GLOBAL_TOOLS' = Nothing
  /\ agenda' = <<>>
  /\ acts' = <<>>
  /\ NoQuery
  /\ UNCHANGED <<unit, run, earlier, reports, log, queries>>

Next ==
  \/ AnalyzeRootNode
  \/ AnalyzeFunction
  \/ AnalyzeFrame
  \/ PopFrame
  \/ ReturnFromFunction
  \/ Finish
  \/ IsLR
  \/ IsLRReturn
  \/ CheckCallForInjectionReturn
  \/ Panic

Spec == Init /\ [][Next]_vars

----------------------------------------------------------------------------
(* What the properties are stated with: the diagnostics reported, and      *)
(* reference readings of the syntax that do not go through the checkers.   *)

ReportedIn(reps, node, messageId) ==
  \E i \in 1..Len(reps) : reps[i].node = node /\ reps[i].messageId = messageId

Reported(node, messageId) == ReportedIn(reports, node, messageId)

\* analyzeRootNode has returned or thrown
Ended == pc \in {"done", "thrown"}

FunctionKinds == {"FunctionDeclaration", "MethodDeclaration", "Constructor"}

\* the innermost function-like declaration around a node, <<>> when there is none
RECURSIVE EnclosingFunction(_)
EnclosingFunction(p) ==
  IF p = <<>> THEN <<>>
  ELSE IF getKind(getParent(p)) \in FunctionKinds THEN getParent(p)
  ELSE EnclosingFunction(getParent(p))

IsPrefix(a, b) == Len(a) <= Len(b) /\ SubSeq(b, 1, Len(a)) = a

NodesIn(p) == Range(Descendants(p))

Decorated(fnDecl, name) ==
  \E k \in Range(getChildren(fnDecl)) : getKind(k) = "Decorator" /\ N(k).text = name

IsTransaction(fnDecl) == Decorated(fnDecl, "Transaction")

\* a workflow is never a transaction
IsWorkflow(fnDecl) == Decorated(fnDecl, "Workflow") /\ ~Decorated(fnDecl, "Transaction")

AssignmentOperators ==
  {"=", "+=", "-=", "*=", "**=", "/=", "%=", "<<=", ">>=", ">>>=", "&=", "|=", "||=",
   "&&=", "??=", "^="}

\* the base of an expression: parentheses and property and element accesses unwrapped
RECURSIVE LeftmostBase(_)
LeftmostBase(p) ==
  IF getKind(p) = "ParenthesizedExpression" THEN LeftmostBase(p \o <<2>>)
  ELSE IF getKind(p) \in {"PropertyAccessExpression", "ElementAccessExpression"}
  THEN LeftmostBase(p \o <<1>>)
  ELSE p

\* the base of a call: the calls on the way to it unwrapped as well
RECURSIVE CallBase(_)
CallBase(p) ==
  IF getKind(p) = "ParenthesizedExpression" THEN CallBase(p \o <<2>>)
  ELSE IF getKind(p) \in {"PropertyAccessExpression", "ElementAccessExpression",
                          "CallExpression"}
  THEN CallBase(p \o <<1>>)
  ELSE p

IsAssignmentToIdentifier(p) ==
  /\ getKind(p) = "BinaryExpression"
  /\ N(p \o <<2>>).text \in AssignmentOperators
  /\ getKind(LeftmostBase(p \o <<1>>)) = "Identifier"

AssignedSymbol(p) == N(LeftmostBase(p \o <<1>>)).sym

InNoFrame(symbol, stack) == \A i \in 1..Len(stack) : symbol \notin stack[i]

\* the callee and the arguments of a call or `new` expression, read off its children
CalleeOf(p) == IF getKind(p) = "NewExpression" THEN p \o <<2>> ELSE p \o <<1>>

ArgumentsOf(p) ==
  {k \in Range(getChildren(p)) : getKind(k) # "Token" /\ k # CalleeOf(p)}

IsRawQueryCall(p) ==
  getKind(p) = "CallExpression" /\ maybeGetArgsFromRawSqlCallSite(p) # <<>>

\* the identifier is bound by a parameter of the function
OwnParameter(fnDecl, id) ==
  /\ getKind(id) = "Identifier"
  /\ N(id).sym # Nothing
  /\ \E k \in Range(getChildren(fnDecl)) : getKind(k) = "Parameter" /\ N(k).sym = N(id).sym

\* the assignments of the function to a symbol
AssignmentsTo(fnDecl, symbol) ==
  {a \in NodesIn(fnDecl) : IsAssignmentToIdentifier(a) /\ AssignedSymbol(a) = symbol}

\* the nodes the literal-reducibility of a node rests on, each with whether all that
\* is assigned to it or makes it up is an expression to look into
RECURSIVE Reach(_, _, _)
Reach(frontier, found, fnDecl) ==
  IF frontier = {} THEN found
  ELSE LET n == CHOOSE x \in frontier : TRUE
           items == LRItems(n, fnDecl)
           rvalues == {i \in 1..Len(items) : items[i].tag = "rvalue"}
           all == found \cup {[node |-> n, clean |-> rvalues = 1..Len(items)]}
       IN  Reach((frontier \cup {items[i].node : i \in rvalues}) \ {r.node : r \in all},
                 all, fnDecl)

\* literal-reducible by definition: nothing the node rests on is a parameter, a node
\* outside the grammar or an error
ReducesToLiterals(n, fnDecl) == \A r \in Reach({n}, {}, fnDecl) : r.clean

\* built from literals, parentheses, concatenation and identifiers only
RECURSIVE IsConcatenation(_)
IsConcatenation(p) ==
  IF getKind(p) \in {"StringLiteral", "NumericLiteral", "Identifier"} THEN TRUE
  ELSE IF getKind(p) = "ParenthesizedExpression" THEN IsConcatenation(p \o <<2>>)
  ELSE IF getKind(p) = "BinaryExpression"
  THEN /\ N(p \o <<2>>).text = "+"
       /\ IsConcatenation(p \o <<1>>)
       /\ IsConcatenation(p \o <<3>>)
  ELSE FALSE

IdentifiersOf(p) == {d \in NodesIn(p) \cup {p} : getKind(d) = "Identifier"}

\* the running check has a step to take: isLR is called on the next item or the item
\* settles the call, a call returns, the check returns, or an error is thrown
CanStep ==
  IF lrStack = <<>>
  THEN injection[1].result \in {"LR", "notLR"}
  ELSE \/ Top.failed
       \/ Top.todo = <<>>
       \/ NextItem.tag \in {"rvalue", "NotRValueButFnParam", "notLR", "panic"}

\* the nodes of the compilation unit the running check has not looked into
Unexplored(results) == Cardinality(NodesIn(<<>>) \ DOMAIN results)

\* what the isLR calls in progress have left to do: for each call its items to go
\* through, its return, and its failure if it has not failed
RECURSIVE Pending(_)
Pending(calls) ==
  IF calls = <<>> THEN 0
  ELSE Len(Head(calls).todo) + (IF Head(calls).failed THEN 1 ELSE 2) + Pending(Tail(calls))

\* the steps of a returned query in which isLR was called on a node under evaluation
Reentries(q) == {i \in 1..Len(q.lrSteps) : q.lrSteps[i].how = "reentered"}

\* the declarations of a symbol in the blocks within the body of the function
BlockDeclarationsOf(symbol, fnDecl) ==
  {d \in NodesIn(fnDecl) :
     /\ getKind(d) = "VariableDeclaration"
     /\ N(d).sym = symbol
     /\ \E b \in NodesIn(getBody(fnDecl)[1]) : getKind(b) = "Block" /\ IsPrefix(b, d)}

\* the identifier is bound by a redeclaration in a block of a name bound outside it,
\* initialised with a literal and never assigned
BlockLocalLiteral(id, fnDecl) ==
  /\ getKind(id) = "Identifier"
  /\ BlockDeclarationsOf(N(id).sym, fnDecl) # {}
  /\ \A d \in BlockDeclarationsOf(N(id).sym, fnDecl) :
        Len(N(d).kids) = 3 /\ getKind(d \o <<3>>) \in {"StringLiteral", "NumericLiteral"}
  /\ AssignmentsTo(fnDecl, N(id).sym) = {}
  /\ \E o \in NodesIn(fnDecl) :
        getKind(o) = "Identifier" /\ N(o).text = N(id).text /\ N(o).sym # N(id).sym

\* a block before the identifier redeclares its name
ShadowedBefore(id, fnDecl) ==
  \E o \in NodesIn(fnDecl) :
     /\ getKind(o) = "Identifier"
     /\ N(o).text = N(id).text
     /\ N(o).sym # N(id).sym
     /\ BlockDeclarationsOf(N(o).sym, fnDecl) # {}
     /\ N(o).line < N(id).line

\* the binding of the identifier is a parameter or is assigned a call
NonLRBinding(id, fnDecl) ==
  \/ OwnParameter(fnDecl, id)
  \/ \E a \in AssignmentsTo(fnDecl, N(id).sym) : getKind(a \o <<3>>) = "CallExpression"

\* the symbol is declared in the function itself, not in a function within it
DeclaredIn(symbol, fnDecl) ==
  \E d \in NodesIn(fnDecl) :
     getKind(d) = "VariableDeclaration" /\ N(d).sym = symbol /\ EnclosingFunction(d) = fnDecl

\* the symbol is declared in a function around the function
DeclaredInEnclosing(symbol, fnDecl) ==
  \E d \in NodesIn(<<>>) :
     /\ getKind(d) = "VariableDeclaration"
     /\ N(d).sym = symbol
     /\ EnclosingFunction(d) # <<>>
     /\ EnclosingFunction(d) # fnDecl
     /\ IsPrefix(EnclosingFunction(d), fnDecl)

\* the stack a block was entered with
StackAtEntry(block) == log[CHOOSE i \in 1..Len(log) : log[i].node = block].stack

----------------------------------------------------------------------------
(* The properties *)

\* C1. Parameter taint: in a Transaction function, a recognized raw-query call whose
\* argument is an identifier bound by a parameter of the function is reported as
\* sqlInjection once the analysis has ended, whatever is assigned to the parameter
\* in the body.
ParameterTaint ==
  Ended =>
    \A i \in 1..Len(log) :
       LET e == log[i]
       IN  (/\ IsTransaction(e.fnDecl)
            /\ IsRawQueryCall(e.node)
            /\ ArgumentsOf(e.node) # {}
            /\ \A a \in ArgumentsOf(e.node) : OwnParameter(e.fnDecl, a))
           => Reported(e.node, "sqlInjection")

\* a raw query on the parameter, which the body assigns a literal, was reported
ParameterTaintWitness ==
  /\ pc = "done"
  /\ \E i \in 1..Len(log) :
        LET e == log[i]
        IN  /\ IsTransaction(e.fnDecl)
            /\ IsRawQueryCall(e.node)
            /\ ArgumentsOf(e.node) # {}
            /\ \A a \in ArgumentsOf(e.node) :
                  /\ OwnParameter(e.fnDecl, a)
                  /\ \E b \in AssignmentsTo(e.fnDecl, N(a).sym) :
                        getKind(b \o <<3>>) = "StringLiteral"
            /\ Reported(e.node, "sqlInjection")

\* C2. Concatenation closure: a recognized raw-query call whose arguments are built
\* only from string and numeric literals, parentheses, binary concatenation and
\* identifiers that reduce to literals is found literal-reducible and gets no
\* sqlInjection diagnostic.
ConcatenationClosure ==
  Ended =>
    \A i \in 1..Len(log) :
       LET e == log[i]
       IN  (/\ IsTransaction(e.fnDecl)
            /\ IsRawQueryCall(e.node)
            /\ \A a \in ArgumentsOf(e.node) :
                  /\ IsConcatenation(a)
                  /\ \A id \in IdentifiersOf(a) : ReducesToLiterals(id, e.fnDecl))
           => /\ ~Reported(e.node, "sqlInjection")
              /\ \A a \in ArgumentsOf(e.node) :
                    \E k \in 1..Len(queries) :
                       queries[k].call = e.node /\ queries[k].callParam = a /\ queries[k].wasLR

\* a concatenation with a parenthesized part and two identifiers went unreported
ConcatenationClosureWitness ==
  /\ pc = "done"
  /\ \E k \in 1..Len(queries) :
        LET q == queries[k]
        IN  /\ getKind(q.callParam) = "BinaryExpression"
            /\ IsConcatenation(q.callParam)
            /\ Cardinality(IdentifiersOf(q.callParam)) = 2
            /\ \E d \in NodesIn(q.callParam) : getKind(d) = "ParenthesizedExpression"
            /\ q.wasLR
            /\ ~Reported(q.call, "sqlInjection")

\* C3. Cycle termination: a literal-reducibility check under way always has a next
\* step to take, and every step of it either looks into a node it has not looked into
\* before, of which the compilation unit has finitely many, or leaves less to do in
\* the isLR calls in progress; so every check ends, reference cycles or not.
CycleTermination ==
  /\ [](Querying => CanStep)
  /\ [][(lrStack # <<>> /\ lrStack' # <<>>)
        => \/ Unexplored(nodeLRResults') < Unexplored(nodeLRResults)
           \/ /\ Unexplored(nodeLRResults') = Unexplored(nodeLRResults)
              /\ Pending(lrStack') < Pending(lrStack)]_vars

\* the check of an identifier assigned an expression of itself (`x = x + x`) returned
CycleTerminationWitness ==
  \E k \in 1..Len(queries) :
     LET q == queries[k]
     IN  /\ getKind(q.callParam) = "Identifier"
         /\ \E i \in Reentries(q) :
               /\ getKind(q.lrSteps[i].node) = "BinaryExpression"
               /\ \E id \in IdentifiersOf(q.lrSteps[i].node) : N(id).sym = N(q.callParam).sym

\* C4. Cycle policy: the nodes under evaluation are marked true; a call of isLR on a
\* node under evaluation returns true; and a raw query whose argument is on a
\* reference cycle and rests on literals only is literal-reducible and not reported.
CyclePolicy ==
  /\ \A i \in 1..Len(lrStack) :
        lrStack[i].node \in DOMAIN nodeLRResults /\ nodeLRResults[lrStack[i].node]
  /\ \A i \in 1..Len(lrSteps) : lrSteps[i].how = "reentered" => lrSteps[i].result
  /\ Ended =>
       \A k \in 1..Len(queries) :
          LET q == queries[k]
          IN  (Reentries(q) # {} /\ ReducesToLiterals(q.callParam, q.fnDecl))
              => q.wasLR /\ ~Reported(q.call, "sqlInjection")

\* the check of x, where `x = y` and `y = x`, came back to an identifier under
\* evaluation and the query went unreported
CyclePolicyWitness ==
  /\ pc = "done"
  /\ \E k \in 1..Len(queries) :
        LET q == queries[k]
        IN  /\ \E i \in Reentries(q) :
                  /\ getKind(q.lrSteps[i].node) = "Identifier"
                  /\ N(q.lrSteps[i].node).sym # N(q.callParam).sym
            /\ q.wasLR
            /\ ~Reported(q.call, "sqlInjection")

\* C5. Shadowing: a raw query on a block-local redeclaration initialised with a
\* literal is not reported, whatever the binding of the same name outside the block
\* is; a raw query after the block on the outer name is reported when the outer
\* binding is a parameter or is assigned a call.
Shadowing ==
  Ended =>
    \A k \in 1..Len(queries) :
       LET q == queries[k]
           c == q.callParam
       IN  /\ BlockLocalLiteral(c, q.fnDecl)
              => q.wasLR /\ ~Reported(q.call, "sqlInjection")
           /\ (/\ getKind(c) = "Identifier"
               /\ ~BlockLocalLiteral(c, q.fnDecl)
               /\ ShadowedBefore(c, q.fnDecl)
               /\ NonLRBinding(c, q.fnDecl))
              => ~q.wasLR /\ Reported(q.call, "sqlInjection")

\* the query in the block went unreported and the query after it on the parameter
\* of the same name was reported
ShadowingWitness ==
  /\ pc = "done"
  /\ \E k \in 1..Len(queries) :
        /\ BlockLocalLiteral(queries[k].callParam, queries[k].fnDecl)
        /\ queries[k].wasLR
        /\ \E j \in (k + 1)..Len(queries) :
              /\ getKind(queries[j].callParam) = "Identifier"
              /\ N(queries[j].callParam).text = N(queries[k].callParam).text
              /\ ShadowedBefore(queries[j].callParam, queries[j].fnDecl)
              /\ NonLRBinding(queries[j].callParam, queries[j].fnDecl)
              /\ Reported(queries[j].call, "sqlInjection")

\* C6, as stated. Global mutation: in a Workflow function an assignment whose left
\* side reduces to an identifier is reported as globalMutation if and only if the
\* identifier's symbol is in no frame of the stack as the assignment is visited.
GlobalMutationIffInNoFrame ==
  Ended =>
    \A i \in 1..Len(log) :
       LET e == log[i]
       IN  (IsWorkflow(e.fnDecl) /\ IsAssignmentToIdentifier(e.node))
           => (Reported(e.node, "globalMutation")
               <=> InNoFrame(AssignedSymbol(e.node), e.stack))

\* C6, amended. Global mutation: in a Workflow function an assignment whose left
\* side reduces to an identifier is reported as globalMutation if and only if the
\* identifier resolves to a symbol and that symbol is in no frame of the stack as
\* the assignment is visited.
GlobalMutationIffResolvedInNoFrame ==
  Ended =>
    \A i \in 1..Len(log) :
       LET e == log[i]
       IN  (IsWorkflow(e.fnDecl) /\ IsAssignmentToIdentifier(e.node))
           => (Reported(e.node, "globalMutation")
               <=> (/\ AssignedSymbol(e.node) # Nothing
                    /\ InNoFrame(AssignedSymbol(e.node), e.stack)))

\* in one Workflow function an assignment to a local of an outer frame, made two
\* blocks down, went unreported and an assignment to a symbol of no frame was reported
GlobalMutationWitness ==
  /\ pc = "done"
  /\ \E i \in 1..Len(log) :
        /\ IsWorkflow(log[i].fnDecl)
        /\ IsAssignmentToIdentifier(log[i].node)
        /\ Len(log[i].stack) >= 3
        /\ AssignedSymbol(log[i].node) \in log[i].stack[1]
        /\ ~Reported(log[i].node, "globalMutation")
        /\ \E j \in 1..Len(log) :
              /\ log[j].fnDecl = log[i].fnDecl
              /\ IsAssignmentToIdentifier(log[j].node)
              /\ AssignedSymbol(log[j].node) # Nothing
              /\ InNoFrame(AssignedSymbol(log[j].node), log[j].stack)
              /\ Reported(log[j].node, "globalMutation")

\* C7. Scope frames are strictly nested: the stack of a function under analysis is
\* never empty; entering a block pushes one empty frame; leaving it pops that frame,
\* which leaves the stack the block was entered with, and no symbol of the popped
\* frame is local any more.
FramesStrictlyNested ==
  [][/\ \A i \in 1..Len(acts') : Len(acts'[i].stack) >= 1
     /\ (Walking("analyzeFrame") /\ getKind(Head(agenda).node) = "Block")
        => acts'[Len(acts')].stack = Append(acts[Len(acts)].stack, {})
     /\ Walking("popFrame")
        => LET before == StackAtEntry(Head(agenda).node)
               inside == acts[Len(acts)].stack
               after == acts'[Len(acts')].stack
           IN  /\ Len(inside) = Len(before) + 1
               /\ SubSeq(inside, 1, Len(before)) = before
               /\ after = before
               /\ \A s \in inside[Len(inside)] : ~isLocal(after, s)]_vars

\* an assignment after a block to a variable declared in the block was reported
FramesStrictlyNestedWitness ==
  /\ pc = "done"
  /\ \E i \in 1..Len(log) :
        /\ getKind(log[i].node) = "VariableDeclaration"
        /\ Len(log[i].stack) >= 2
        /\ \E j \in (i + 1)..Len(log) :
              /\ log[j].fnDecl = log[i].fnDecl
              /\ IsAssignmentToIdentifier(log[j].node)
              /\ AssignedSymbol(log[j].node) = N(log[i].node).sym
              /\ log[j].stack = SubSeq(log[i].stack, 1, Len(log[i].stack) - 1)
              /\ Reported(log[j].node, "globalMutation")

\* C8. A fresh stack for every function: the frames of a function under analysis
\* hold symbols declared in that function only; an assignment in a Workflow function
\* to a local of a function around it is reported as globalMutation; and the stacks
\* of the functions around the one under analysis do not change, neither as it is
\* entered or left nor while it is walked.
FreshStackPerFunction ==
  [][/\ \A i \in 1..Len(acts') :
           \A k \in 1..Len(acts'[i].stack) :
              \A s \in acts'[i].stack[k] : DeclaredIn(s, acts'[i].fnDecl)
     /\ \A i \in 1..Len(acts') :
           (i < Len(acts) \/ (i = Len(acts) /\ Len(acts') # Len(acts)))
           => acts'[i] = acts[i]
     /\ Len(log') > Len(log)
        => LET e == log'[Len(log')]
           IN  (/\ IsWorkflow(e.fnDecl)
                /\ IsAssignmentToIdentifier(e.node)
                /\ DeclaredInEnclosing(AssignedSymbol(e.node), e.fnDecl))
               => ReportedIn(reports', e.node, "globalMutation")]_vars

\* the method of a class nested in a method assigned to a local of the outer method,
\* declared before the class, and was reported
FreshStackPerFunctionWitness ==
  /\ pc = "done"
  /\ \E i \in 1..Len(log) :
        /\ IsWorkflow(log[i].fnDecl)
        /\ IsAssignmentToIdentifier(log[i].node)
        /\ DeclaredInEnclosing(AssignedSymbol(log[i].node), log[i].fnDecl)
        /\ log[i].stack = <<{}>>
        /\ \E j \in 1..(i - 1) :
              /\ getKind(log[j].node) = "VariableDeclaration"
              /\ N(log[j].node).sym = AssignedSymbol(log[i].node)
        /\ Reported(log[i].node, "globalMutation")

\* C9. Banned-call arity gating: a call or `new` expression in a Workflow function
\* is reported with the key K if and only if the text of its callee is K and its
\* argument count is within the range of K; `setTimeout(fn)`, `Date()` and
\* `new Date()` are reported, `setTimeout()` and `Date('...')` are not.
BannedCallArityGating ==
  Ended =>
    \A i \in 1..Len(log) :
       LET e == log[i]
           argCount == Cardinality(ArgumentsOf(e.node))
           text == getText(CalleeOf(e.node))
       IN  (IsWorkflow(e.fnDecl) /\ getKind(e.node) \in {"CallExpression", "NewExpression"})
           => /\ \A K \in DOMAIN bannedFunctionsWithArgCountRanges :
                    Reported(e.node, K)
                    <=> (/\ text = K
                         /\ bannedFunctionsWithArgCountRanges[K].min <= argCount
                         /\ argCount <= bannedFunctionsWithArgCountRanges[K].max)
              /\ getText(e.node) = "setTimeout(1)" => Reported(e.node, "setTimeout")
              /\ getText(e.node) \in {"Date()", "newDate()"} => Reported(e.node, "Date")
              /\ getText(e.node) \in {"setTimeout()", "Date(1)"}
                 => \A K \in errorMessages : ~Reported(e.node, K)

\* `bcrypt.hash` called with three arguments was reported
BannedCallArityGatingWitness ==
  /\ pc = "done"
  /\ \E i \in 1..Len(log) :
        /\ IsWorkflow(log[i].fnDecl)
        /\ getKind(log[i].node) = "CallExpression"
        /\ getText(CalleeOf(log[i].node)) = "bcrypt.hash"
        /\ Cardinality(ArgumentsOf(log[i].node)) = 3
        /\ Reported(log[i].node, "bcrypt.hash")

\* C10. Await-target rule: in a Workflow function an await of a call whose leftmost
\* base is an identifier or `this` is reported as awaitingOnNotAllowedType if and
\* only if the type name of the base is not WorkflowContext and no argument of the
\* awaited call has the type name WorkflowContext.
AwaitTargetRule ==
  Ended =>
    \A i \in 1..Len(log) :
       LET e == log[i]
           call == e.node \o <<2>>
           base == CallBase(call)
       IN  (/\ IsWorkflow(e.fnDecl)
            /\ getKind(e.node) = "AwaitExpression"
            /\ getKind(call) = "CallExpression"
            /\ getKind(base) \in {"Identifier", "ThisKeyword"})
           => (Reported(e.node, "awaitingOnNotAllowedType")
               <=> (/\ N(base).type # "WorkflowContext"
                    /\ \A a \in ArgumentsOf(call) : N(a).type # "WorkflowContext"))

\* an await of a call on a base of another type went unreported for its second
\* argument, a WorkflowContext
AwaitTargetRuleWitness ==
  /\ pc = "done"
  /\ \E i \in 1..Len(log) :
        LET call == log[i].node \o <<2>>
        IN  /\ IsWorkflow(log[i].fnDecl)
            /\ getKind(log[i].node) = "AwaitExpression"
            /\ getKind(call) = "CallExpression"
            /\ getKind(CallBase(call)) = "Identifier"
            /\ N(CallBase(call)).type # "WorkflowContext"
            /\ Len(getArguments(call)) = 2
            /\ N(getArguments(call)[1]).type # "WorkflowContext"
            /\ N(getArguments(call)[2]).type = "WorkflowContext"
            /\ ~Reported(log[i].node, "awaitingOnNotAllowedType")

\* an await the rule passes over: its operand is not a call, or the awaited call
\* reduces to something that is neither an identifier nor `this`
SkippedAwait(p) ==
  /\ getKind(p) = "AwaitExpression"
  /\ \/ getKind(p \o <<2>>) # "CallExpression"
     \/ getKind(CallBase(p \o <<2>>)) \notin {"Identifier", "ThisKeyword"}

\* C11. An await whose operand is not a call, or whose awaited call has a leftmost
\* base that is neither an identifier nor `this`, gets no diagnostic, and the step
\* that examines it raises no exception: the analysis goes on, nothing is reported
\* and no query is started.
SkippedAwaitsPass ==
  /\ [](Ended =>
          \A i \in 1..Len(log) :
             (IsWorkflow(log[i].fnDecl) /\ SkippedAwait(log[i].node))
             => \A k \in 1..Len(reports) : reports[k].node # log[i].node)
  /\ [][(/\ Walking("analyzeFrame")
         /\ IsWorkflow(acts[Len(acts)].fnDecl)
         /\ SkippedAwait(Head(agenda).node))
        => /\ pc' = "analyzing"
           /\ reports' = reports
           /\ injection' = <<>>]_vars

\* `await ({}).foo()` and `await new Set()`: the analysis of a Workflow function
\* with such an await returned with nothing reported
SkippedAwaitsPassWitness ==
  /\ pc = "done"
  /\ reports = <<>>
  /\ \E i \in 1..Len(log) :
        /\ IsWorkflow(log[i].fnDecl)
        /\ SkippedAwait(log[i].node)
        /\ getKind(log[i].node \o <<2>>) = "CallExpression"
        /\ getKind(CallBase(log[i].node \o <<2>>)) = "ObjectLiteralExpression"
        /\ \A a \in ArgumentsOf(log[i].node \o <<2>>) : N(a).type # "WorkflowContext"

DeterminismCheckers == {"mutatesGlobalVariable", "callsBannedFunction", "awaitsOnNotAllowedType"}

\* the classifications of the determinism checkers
DeterminismIds ==
  {"globalMutation", "awaitingOnNotAllowedType"} \cup DOMAIN bannedFunctionsWithArgCountRanges

\* the nodes analyzeFrame hands to the checkers of the function
HandedToCheckers(p) ==
  getKind(p) \notin {"ClassDeclaration", "FunctionDeclaration", "Block", "VariableDeclaration"}

\* C12. Annotation exclusivity: the checkers run on a node are those of the function
\* under analysis: the SQL-injection checker alone in a Transaction function, the
\* three determinism checkers alone in a Workflow function, none in a function with
\* neither decorator; never checkers of both sets on one node; and a diagnostic of a
\* set is reported only on nodes whose innermost function has the decorator, so that
\* `console.log(...)` in a Transaction function and assignments to outer variables in
\* an undecorated function are not reported.
AnnotationExclusivity ==
  Ended =>
    /\ \A i \in 1..Len(log) :
          LET e == log[i]
              ran == Range(e.errorCheckers)
          IN  /\ e.fnDecl = EnclosingFunction(e.node)
              /\ ~("isSqlInjection" \in ran /\ ran \cap DeterminismCheckers # {})
              /\ HandedToCheckers(e.node)
                 => ran = IF IsTransaction(e.fnDecl) THEN {"isSqlInjection"}
                          ELSE IF IsWorkflow(e.fnDecl) THEN DeterminismCheckers
                          ELSE {}
    /\ \A k \in 1..Len(reports) :
          LET fn == EnclosingFunction(reports[k].node)
          IN  /\ reports[k].messageId = "sqlInjection" => IsTransaction(fn)
              /\ reports[k].messageId \in DeterminismIds => IsWorkflow(fn)
              /\ reports[k].messageId \in DeterminismIds \cup {"sqlInjection"}

\* in a Transaction function `console.log("Hello!")` and an assignment to a variable
\* of the module went unreported and the raw query of a call was reported
AnnotationExclusivityWitness ==
  /\ pc = "done"
  /\ \E i, j, k \in 1..Len(log) :
        /\ log[i].fnDecl = log[j].fnDecl
        /\ log[j].fnDecl = log[k].fnDecl
        /\ IsTransaction(log[i].fnDecl)
        /\ ~Decorated(log[i].fnDecl, "Workflow")
        /\ getKind(log[i].node) = "CallExpression"
        /\ getText(CalleeOf(log[i].node)) = "console.log"
        /\ IsAssignmentToIdentifier(log[j].node)
        /\ InNoFrame(AssignedSymbol(log[j].node), log[j].stack)
        /\ IsRawQueryCall(log[k].node)
        /\ \A r \in 1..Len(reports) : reports[r].node \notin {log[i].node, log[j].node}
        /\ Reported(log[k].node, "sqlInjection")

\* the methods of the raw queries of a client type, none for other types
RawQueryMethods(t) ==
  IF t \in DOMAIN ormClientInfoForRawSqlQueries
  THEN Range(ormClientInfoForRawSqlQueries[t])
  ELSE {}

\* the bare identifiers of the callee of a call, in source order
CalleeIdentifiers(p) == getDescendantsOfKind(CalleeOf(p), "Identifier")

\* the last identifier of the callee names a raw-query method of the type of the
\* identifier before it
NamesRawQueryMethod(p) ==
  LET ids == CalleeIdentifiers(p)
  IN  /\ Len(ids) >= 2
      /\ N(ids[Len(ids)]).text \in RawQueryMethods(N(ids[Len(ids) - 1]).type)

\* checkCallForInjection was called on an argument of the call
TreatedAsCallSite(p) == \E k \in 1..Len(queries) : queries[k].call = p

\* C13. Call-site recognition: a call in a Transaction function is treated as a
\* raw-query call site exactly when the last identifier of its callee names a method
\* of the client table for the type of the identifier before it, whatever the length
\* of the chain of identifiers and the types of the identifiers before the client.
CallSiteRecognition ==
  pc = "done" =>
    \A i \in 1..Len(log) :
       (/\ IsTransaction(log[i].fnDecl)
        /\ getKind(log[i].node) = "CallExpression"
        /\ ArgumentsOf(log[i].node) # {})
       => (TreatedAsCallSite(log[i].node) <=> NamesRawQueryMethod(log[i].node))

\* C14. In a Transaction function a call `ctxt.client.query(arg)` on a client of type
\* PoolClient whose argument is not literal-reducible is reported as sqlInjection.
PoolClientQueryReported ==
  pc = "done" =>
    \A i \in 1..Len(log) :
       LET ids == CalleeIdentifiers(log[i].node)
       IN  (/\ IsTransaction(log[i].fnDecl)
            /\ getKind(log[i].node) = "CallExpression"
            /\ Len(ids) = 3
            /\ N(ids[1]).type = "TransactionContext"
            /\ N(ids[2]).type = "PoolClient"
            /\ N(ids[3]).text = "query"
            /\ \E a \in ArgumentsOf(log[i].node) : ~ReducesToLiterals(a, log[i].fnDecl))
           => Reported(log[i].node, "sqlInjection")

\* the identifier is bound by a declaration outside the function
DeclaredOutside(id, fnDecl) ==
  /\ getKind(id) = "Identifier"
  /\ \E d \in NodesIn(<<>>) :
        getKind(d) = "VariableDeclaration" /\ N(d).sym = N(id).sym /\ ~IsPrefix(fnDecl, d)

\* the values given to a symbol within a node: the initializers of its declarations
\* and the right-hand sides of the assignments to it
ValuesGivenIn(p, symbol) ==
  {d \o <<3>> : d \in {n \in NodesIn(p) : /\ getKind(n) = "VariableDeclaration"
                                          /\ N(n).sym = symbol
                                          /\ Len(N(n).kids) = 3}}
  \cup {a \o <<3>> : a \in {n \in NodesIn(p) : /\ IsAssignmentToIdentifier(n)
                                               /\ getKind(LeftmostBase(n \o <<1>>)) = "Identifier"
                                               /\ AssignedSymbol(n) = symbol}}

\* a value that is a call is not literal-reducible
GivenACall(p, symbol) == \E v \in ValuesGivenIn(p, symbol) : getKind(v) = "CallExpression"

\* C15, as stated. The assignments to an identifier declared outside the analyzed
\* function are enumerated over the whole compilation unit: a raw query on a variable
\* of the module whose initializer or any assignment is not literal-reducible is
\* reported as sqlInjection.
OuterAssignmentsTraced ==
  Ended =>
    \A k \in 1..Len(queries) :
       LET q == queries[k]
       IN  (DeclaredOutside(q.callParam, q.fnDecl) /\ GivenACall(<<>>, N(q.callParam).sym))
           => Reported(q.call, "sqlInjection")

\* C15, amended. The assignments to an identifier declared outside the analyzed
\* function are enumerated over the parameters and the body of the analyzed function
\* only: the raw query is reported as sqlInjection if and only if a value given to
\* the variable inside the function is not literal-reducible, whatever the variable
\* is initialised with or assigned outside the function.
OuterAssignmentsNotTraced ==
  Ended =>
    \A k \in 1..Len(queries) :
       LET q == queries[k]
       IN  DeclaredOutside(q.callParam, q.fnDecl)
           => /\ Reported(q.call, "sqlInjection") <=> GivenACall(q.fnDecl, N(q.callParam).sym)
              /\ q.wasLR <=> ~GivenACall(q.fnDecl, N(q.callParam).sym)

\* a raw query on a variable of the module that is initialised with a call and
\* assigned a call at the level of the module, and not assigned in the function,
\* went unreported
OuterAssignmentsNotTracedWitness ==
  /\ pc = "done"
  /\ \E k \in 1..Len(queries) :
        LET q == queries[k]
        IN  /\ DeclaredOutside(q.callParam, q.fnDecl)
            /\ \A v \in ValuesGivenIn(<<>>, N(q.callParam).sym) : getKind(v) = "CallExpression"
            /\ Cardinality(ValuesGivenIn(<<>>, N(q.callParam).sym)) = 2
            /\ ValuesGivenIn(q.fnDecl, N(q.callParam).sym) = {}
            /\ q.wasLR
            /\ ~Reported(q.call, "sqlInjection")

\* a template string, with substitutions or without
IsTemplateString(p) == getKind(p) \in {"TemplateExpression", "NoSubstitutionTemplateLiteral"}

\* the interpolated sub-expressions of a template string
Interpolations(p) ==
  {k \o <<1>> : k \in {c \in Range(getChildren(p)) : getKind(c) = "TemplateSpan"}}

\* C16. A template string is literal-reducible if and only if every one of its
\* interpolated sub-expressions is; a template string with no interpolations is
\* literal-reducible; and a raw query on a literal-reducible template string is not
\* reported.
TemplateLiteralReducibility ==
  pc = "done" =>
    \A k \in 1..Len(queries) :
       LET q == queries[k]
       IN  IsTemplateString(q.callParam)
           => /\ q.wasLR <=> \A e \in Interpolations(q.callParam) :
                                ReducesToLiterals(e, q.fnDecl)
              /\ q.wasLR => ~Reported(q.call, "sqlInjection")
              /\ ~q.wasLR => Reported(q.call, "sqlInjection")

\* a comes before b in the order of the source: an ancestor before its descendants,
\* a subtree before the subtrees of its later siblings
RECURSIVE ComesBefore(_, _)
ComesBefore(a, b) ==
  IF a = <<>> THEN b # <<>>
  ELSE IF b = <<>> THEN FALSE
  ELSE IF Head(a) # Head(b) THEN Head(a) < Head(b)
  ELSE ComesBefore(Tail(a), Tail(b))

Visited(p) == \E i \in 1..Len(log) : log[i].node = p

\* a raw query of a Transaction function on a parameter of the function
RawQueryOnParameter(p) ==
  /\ IsRawQueryCall(p)
  /\ EnclosingFunction(p) # <<>>
  /\ IsTransaction(EnclosingFunction(p))
  /\ ArgumentsOf(p) # {}
  /\ \A a \in ArgumentsOf(p) : OwnParameter(EnclosingFunction(p), a)

\* C17, as stated. Exception isolation: whether or not a checker raised an error on
\* some node, the other nodes of the compilation unit are analyzed and their
\* diagnostics emitted: every raw query on a parameter is visited and reported.
ExceptionIsolation ==
  Ended =>
    \A p \in NodesIn(<<>>) :
       RawQueryOnParameter(p) => Visited(p) /\ Reported(p, "sqlInjection")

\* C17, amended. No isolation: the error a checker raises on a node ends the
\* analysis of the compilation unit at that node. The step leaves the diagnostics
\* emitted so far as they are and drops all the calls pending; no step of that
\* analysis follows it (the one step there is begins another analysis); and no node after that node in the order of the source (its own subtree, its
\* sibling subtrees, the remaining functions and classes) is analyzed or reported.
ErrorEndsAnalysis ==
  /\ [][(Querying /\ Panicking)
        => /\ pc' = "thrown"
           /\ agenda' = <<>>
           /\ acts' = <<>>
           /\ reports' = reports
           /\ log' = log]_vars
  /\ [][pc = "thrown" => run' # run]_vars
  /\ [](pc = "thrown" =>
          \A p \in NodesIn(<<>>) :
             ComesBefore(log[Len(log)].node, p)
             => ~Visited(p) /\ \A k \in 1..Len(reports) : reports[k].node # p)

\* the analysis ended with the error after it had reported a raw query, and the raw
\* queries on the parameter in the two functions that follow were neither visited
\* nor reported
ErrorEndsAnalysisWitness ==
  /\ pc = "thrown"
  /\ reports # <<>>
  /\ Cardinality({p \in NodesIn(<<>>) :
                    /\ RawQueryOnParameter(p)
                    /\ EnclosingFunction(p) # log[Len(log)].fnDecl
                    /\ ~Visited(p)
                    /\ ~Reported(p, "sqlInjection")}) = 2


----------------------------------------------------------------------------
----------------------------------------------------------------------------
\* C19: when the same compilation unit has been analyzed twice in succession,
\* the second analysis passed the same sequence of diagnostics (node,
\* classification, format data) to its sink as the first, and ended the same way.
Idempotence ==
  (run = "second" /\ Ended) => /\ reports = earlier[1].reports
                               /\ pc = earlier[1].pc

\* both analyses made a report of a raw query and of another kind, or both were
\* ended by an error after a report
IdempotenceWitness ==
  /\ run = "second"
  /\ Ended
  /\ earlier[1].reports # <<>>
  /\ \/ pc = "thrown"
     \/ \E i, j \in 1..Len(reports) : /\ reports[i].messageId = "sqlInjection"
                                      /\ reports[j].messageId # "sqlInjection"

----------------------------------------------------------------------------
\* C20: every classification passed to the diagnostic sink is sqlInjection,
\* globalMutation, awaitingOnNotAllowedType or a key of the banned-function
\* table, every key of that table is a key of the message catalog, and so every
\* classification passed to the sink is a key of the catalog.
ClassificationsInCatalog ==
  /\ \A i \in 1..Len(reports) :
        /\ reports[i].messageId \in {"sqlInjection", "globalMutation", "awaitingOnNotAllowedType"}
                                      \cup DOMAIN bannedFunctionsWithArgCountRanges
        /\ reports[i].messageId \in errorMessages
  /\ DOMAIN bannedFunctionsWithArgCountRanges \subseteq errorMessages

\* a call of a bcrypt function has been reported
ClassificationsInCatalogWitness ==
  \E i \in 1..Len(reports) : reports[i].messageId \in {"bcrypt.hash", "bcrypt.compare"}

----------------------------------------------------------------------------
\* the node is an assignment whose target is a property of `this`
AssignsToPropertyOfThis(p) ==
  /\ getKind(p) = "BinaryExpression"
  /\ N(p \o <<2>>).text \in AssignmentOperators
  /\ getKind(p \o <<1>>) = "PropertyAccessExpression"
  /\ getKind(LeftmostBase(p \o <<1>>)) = "ThisKeyword"

----------------------------------------------------------------------------
\* the nodes under the argument that the reference definition finds not reducible on
\* their own: a parameter, a node outside the grammar
NonReducibleLeaves(n, fnDecl) == {r.node : r \in {q \in Reach({n}, {}, fnDecl) : ~q.clean}}

\* C22: whenever the argument of a raw-query call is found not literal-reducible,
\* the set of root problem nodes of that query holds exactly one node, so the
\* error on a set of another size is never raised; that node is the last node
\* isLR was called on, the first it found not reducible, and the lineNumber and
\* theExpression of the diagnostic are the line and the text of that node.
OneRootProblemNode ==
  /\ (Querying /\ lrStack = <<>> /\ injection[1].result = "notLR")
     => Cardinality(rootProblemNodes) = 1
  /\ \A j \in 1..Len(queries) :
        LET q == queries[j]
        IN  ~q.wasLR
            => /\ Cardinality(q.rootProblemNodes) = 1
               /\ q.rootProblemNodes = {q.lrSteps[Len(q.lrSteps)].node}
               /\ \A k \in 1..Len(q.lrSteps) - 1 : q.lrSteps[k].result
               /\ \E i \in 1..Len(reports) :
                     /\ reports[i].node = q.call
                     /\ reports[i].messageId = "sqlInjection"
                     /\ \E n \in q.rootProblemNodes :
                           reports[i].data = [lineNumber |-> getNodePosInFile(n).line,
                                              theExpression |-> getText(n)]

\* a query was found not reducible whose argument rests on two nodes that are not
\* reducible on their own, and one of them was recorded
OneRootProblemNodeWitness ==
  \E j \in 1..Len(queries) :
     /\ ~queries[j].wasLR
     /\ Cardinality(queries[j].rootProblemNodes) = 1
     /\ Cardinality(NonReducibleLeaves(queries[j].callParam, queries[j].fnDecl)) >= 2

----------------------------------------------------------------------------
\* the kinds of the grammar of literal-reducible values; a template without
\* substitutions is counted with the templates
GrammarKinds ==
  {"StringLiteral", "NumericLiteral", "TemplateExpression", "NoSubstitutionTemplateLiteral",
   "Identifier", "BinaryExpression", "ParenthesizedExpression"}

OutsideGrammar(p) == getKind(p) \notin GrammarKinds

\* C23: a node that is not a string literal, a numeric literal, a template, an
\* identifier, a binary expression or a parenthesized expression is found not
\* literal-reducible when isLR is called on it and is recorded as the one root
\* problem node; and a raw query whose argument reaches such a node through
\* sub-expressions and things assigned is found not literal-reducible and reported
\* as sqlInjection.
OutsideGrammarNotReducible ==
  Ended =>
    \A j \in 1..Len(queries) :
       LET q == queries[j]
       IN  /\ \A k \in 1..Len(q.lrSteps) :
                 (q.lrSteps[k].how = "fresh" /\ OutsideGrammar(q.lrSteps[k].node))
                 => /\ ~q.nodeLRResults[q.lrSteps[k].node]
                    /\ q.rootProblemNodes = {q.lrSteps[k].node}
           /\ (\E r \in Reach({q.callParam}, {}, q.fnDecl) : OutsideGrammar(r.node))
              => /\ ~q.wasLR
                 /\ Reported(q.call, "sqlInjection")

\* a raw query on a variable that was assigned a tagged template was reported, with
\* the tagged template as the expression of the diagnostic
OutsideGrammarNotReducibleWitness ==
  \E j \in 1..Len(queries) :
     /\ ~OutsideGrammar(queries[j].callParam)
     /\ ~queries[j].wasLR
     /\ \E n \in queries[j].rootProblemNodes :
           /\ getKind(n) = "TaggedTemplateExpression"
           /\ getKind(getParent(n)) = "BinaryExpression"
           /\ \E i \in 1..Len(reports) :
                 /\ reports[i].node = queries[j].call
                 /\ reports[i].data.theExpression = getText(n)

----------------------------------------------------------------------------
\* the declarations with an initializer, in a variable statement of the function, of
\* the symbol of an identifier
InitializedDeclarations(id, fnDecl) ==
  {d \in NodesIn(fnDecl) :
     /\ getKind(d) = "VariableDeclaration"
     /\ getKind(getParent(getParent(d))) = "VariableStatement"
     /\ Len(N(d).kids) = 3
     /\ d \o <<1>> # id
     /\ N(d \o <<1>>).sym = N(id).sym}

\* `let`, `const` or `var`, as written in the declaration list
DeclaredWith(d) == N(getParent(d) \o <<1>>).text

\* the declaration starts before the identifier in the text
StartsBefore(d, id) ==
  \/ N(d).line < N(id).line
  \/ N(d).line = N(id).line /\ N(d).column < N(id).column

\* the initializer of the declaration is among the things assigned that are
\* enumerated for the identifier
CountsFor(d, id, fnDecl) ==
  LET items == getRValuesAssignedToIdentifier(fnDecl, id)
  IN  \E i \in 1..Len(items) : items[i] = Yield("rvalue", d \o <<3>>)

\* C24: when isLR traces an occurrence of an identifier, the initializer of a
\* `let` or `const` declaration of its symbol is among the things assigned exactly
\* when the declaration starts before the occurrence in the text (on an earlier
\* line, or on the same line at a smaller column), and the initializer of a `var`
\* declaration is among them wherever the declaration is.
HoistingCheck ==
  Ended =>
    \A j \in 1..Len(queries) :
       \A k \in 1..Len(queries[j].lrSteps) :
          LET id == queries[j].lrSteps[k].node
              fnDecl == queries[j].fnDecl
          IN  (queries[j].lrSteps[k].how = "fresh" /\ getKind(id) = "Identifier")
              => \A d \in InitializedDeclarations(id, fnDecl) :
                    CountsFor(d, id, fnDecl)
                    <=> (DeclaredWith(d) = "var" \/ StartsBefore(d, id))

\* a query was found literal-reducible that traced an identifier declared further
\* along its own line with a `const` and initialized with a call
HoistingCheckWitness ==
  \E j \in 1..Len(queries) :
     /\ queries[j].wasLR
     /\ \E k \in 1..Len(queries[j].lrSteps) :
           LET id == queries[j].lrSteps[k].node
           IN  /\ queries[j].lrSteps[k].how = "fresh"
               /\ getKind(id) = "Identifier"
               /\ \E d \in InitializedDeclarations(id, queries[j].fnDecl) :
                     /\ DeclaredWith(d) = "const"
                     /\ N(d).line = N(id).line
                     /\ N(d).column > N(id).column
                     /\ getKind(d \o <<3>>) = "CallExpression"
                     /\ ~CountsFor(d, id, queries[j].fnDecl)

----------------------------------------------------------------------------
\* the arguments of a recognized raw-query call site visited with the checker of
\* raw queries, in order; <<>> for any other node
RawQueryArguments(e) ==
  IF "isSqlInjection" \in Range(e.errorCheckers) /\ IsRawQueryCall(e.node)
  THEN maybeGetArgsFromRawSqlCallSite(e.node)[1]
  ELSE <<>>

\* the identifier is no parameter and nothing assigned is enumerated for it
NothingAssigned(id, fnDecl) ==
  /\ getKind(id) = "Identifier"
  /\ LET items == getRValuesAssignedToIdentifier(fnDecl, id)
     IN  \A i \in 1..Len(items) : items[i].tag \notin {"rvalue", "NotRValueButFnParam"}

\* C25: an identifier that is not a parameter and for which no initializer and no
\* right-hand side of an assignment is enumerated in the function is found
\* literal-reducible whenever isLR looks into it, and a raw query whose arguments
\* are such identifiers is not reported.
VacuouslyReducible ==
  /\ \A j \in 1..Len(queries) :
        \A k \in 1..Len(queries[j].lrSteps) :
           LET id == queries[j].lrSteps[k].node
           IN  (queries[j].lrSteps[k].how = "fresh" /\ NothingAssigned(id, queries[j].fnDecl))
               => queries[j].nodeLRResults[id]
  /\ Ended =>
       \A i \in 1..Len(log) :
          LET args == RawQueryArguments(log[i])
          IN  (args # <<>> /\ \A a \in Range(args) : NothingAssigned(a, log[i].fnDecl))
              => ~Reported(log[i].node, "sqlInjection")

\* a raw query on a variable that is declared after it, with a call as initializer,
\* was found literal-reducible and the analysis ended without a report
VacuouslyReducibleWitness ==
  /\ pc = "done"
  /\ reports = <<>>
  /\ \E j \in 1..Len(queries) :
        /\ queries[j].wasLR
        /\ NothingAssigned(queries[j].callParam, queries[j].fnDecl)
        /\ \E d \in InitializedDeclarations(queries[j].callParam, queries[j].fnDecl) :
              getKind(d \o <<3>>) = "CallExpression"

----------------------------------------------------------------------------
\* the calls of checkCallForInjection that returned for a call expression, in order
QueriesOf(call) == SelectSeq(queries, LAMBDA q: q.call = call)

\* the nodes isLR looked into during a query
LookedInto(q) == {q.lrSteps[k].node : k \in {i \in 1..Len(q.lrSteps) : q.lrSteps[i].how = "fresh"}}

\* C26: for a recognized raw-query call site the arguments are checked in argument
\* order, each with a memo of its own, up to the first that is not
\* literal-reducible, and all of them when all are literal-reducible; the call is
\* reported if and only if at least one argument is not literal-reducible; and at
\* most one sqlInjection diagnostic is emitted for the call, that of the first
\* argument that is not literal-reducible.
EveryArgumentChecked ==
  pc = "done" =>
    \A i \in 1..Len(log) :
       LET call == log[i].node
           args == RawQueryArguments(log[i])
           qs == QueriesOf(call)
           failing == {a \in 1..Len(args) : ~ReducesToLiterals(args[a], log[i].fnDecl)}
           diagnostics == {r \in 1..Len(reports) : /\ reports[r].node = call
                                                   /\ reports[r].messageId = "sqlInjection"}
       IN  args # <<>>
           => /\ Len(qs) <= Len(args)
              /\ \A a \in 1..Len(qs) :
                    /\ qs[a].callParam = args[a]
                    /\ DOMAIN qs[a].nodeLRResults = LookedInto(qs[a])
                    /\ qs[a].wasLR <=> a \notin failing
                    /\ qs[a].wasLR <=> IF a < Len(qs) THEN TRUE ELSE failing = {}
              /\ failing = {} => Len(qs) = Len(args)
              /\ Cardinality(diagnostics) = IF failing = {} THEN 0 ELSE 1
              /\ \A r \in diagnostics :
                    \E n \in qs[Len(qs)].rootProblemNodes :
                       reports[r].data = [lineNumber |-> getNodePosInFile(n).line,
                                          theExpression |-> getText(n)]

\* a raw query with three arguments, the first literal-reducible and the two others
\* not, was checked twice and reported once, for its second argument
EveryArgumentCheckedWitness ==
  /\ pc = "done"
  /\ Len(reports) = 1
  /\ \E i \in 1..Len(log) :
        LET args == RawQueryArguments(log[i])
            qs == QueriesOf(log[i].node)
        IN  /\ Len(args) = 3
            /\ Len(qs) = 2
            /\ qs[1].wasLR
            /\ ~qs[2].wasLR
            /\ ~ReducesToLiterals(args[3], log[i].fnDecl)
            /\ reports[1].data.theExpression = getText(args[2])

----------------------------------------------------------------------------
\* the places of the log at which analyzeFrame was called on a node
VisitsOf(p) == {i \in 1..Len(log) : log[i].node = p}

\* an assignment to an identifier that is part of a larger expression
NestedAssignment(p) ==
  /\ IsAssignmentToIdentifier(p)
  /\ getKind(getParent(p)) # "ExpressionStatement"

\* C27: the walker goes into the children of every node it visits, other than the
\* classes and functions it hands to analyzeClass and analyzeFunction, whether or
\* not a diagnostic was emitted for the node; no node is visited twice, so each
\* checker runs at most once on a node and no diagnostic is emitted twice for a
\* node and a classification; and in a Workflow function an assignment nested in
\* another expression is reported on its own, by the rule of the assignments that
\* are statements.
DescentRegardlessOfDiagnostics ==
  /\ \A i \in 1..Len(log) : VisitsOf(log[i].node) = {i}
  /\ \A i, j \in 1..Len(reports) :
        (reports[i].node = reports[j].node /\ reports[i].messageId = reports[j].messageId)
        => i = j
  /\ pc = "done"
     => \A i \in 1..Len(log) :
           LET e == log[i]
           IN  /\ getKind(e.node) \notin {"ClassDeclaration", "FunctionDeclaration"}
                  => \A c \in Range(getChildren(e.node)) :
                        getKind(c) # "Token" => VisitsOf(c) # {}
               /\ (IsWorkflow(e.fnDecl) /\ NestedAssignment(e.node))
                  => (Reported(e.node, "globalMutation")
                      <=> (/\ AssignedSymbol(e.node) # Nothing
                           /\ InNoFrame(AssignedSymbol(e.node), e.stack)))

\* in a Workflow method an assignment and an assignment inside its right-hand side
\* were both reported
DescentRegardlessOfDiagnosticsWitness ==
  /\ pc = "done"
  /\ \E i, j \in 1..Len(log) :
        /\ IsWorkflow(log[i].fnDecl)
        /\ log[i].node # log[j].node
        /\ IsPrefix(log[i].node, log[j].node)
        /\ IsAssignmentToIdentifier(log[i].node)
        /\ NestedAssignment(log[j].node)
        /\ getKind(getParent(log[j].node)) = "ArrayLiteralExpression"
        /\ Reported(log[i].node, "globalMutation")
        /\ Reported(log[j].node, "globalMutation")

----------------------------------------------------------------------------
\* C28: the evaluation with the memo agrees with the definition by reachability:
\* a call of checkCallForInjection returns no error exactly when no parameter and
\* no node outside the grammar can be reached from the argument through
\* sub-expressions and the things assigned that are enumerated for identifiers.
\* An entry of the memo that says not literal-reducible is right by that
\* definition; an entry that says literal-reducible may have been computed while a
\* node above it was only marked, and when the verdict is literal-reducible every
\* entry is right.
MemoAgreesWithReachability ==
  Ended =>
    \A j \in 1..Len(queries) :
       LET q == queries[j]
       IN  /\ q.wasLR <=> ReducesToLiterals(q.callParam, q.fnDecl)
           /\ \A n \in DOMAIN q.nodeLRResults :
                 /\ ~q.nodeLRResults[n] => ~ReducesToLiterals(n, q.fnDecl)
                 /\ q.wasLR => (q.nodeLRResults[n] /\ ReducesToLiterals(n, q.fnDecl))

\* a query returned its error with an entry in its memo that says literal-reducible
\* for an identifier from which a node that is not reducible can be reached: the
\* entry was computed while an identifier above it, found not reducible in the end,
\* was only marked
MemoAgreesWithReachabilityWitness ==
  \E j \in 1..Len(queries) :
     /\ ~queries[j].wasLR
     /\ \E n \in DOMAIN queries[j].nodeLRResults :
           /\ getKind(n) = "Identifier"
           /\ queries[j].nodeLRResults[n]
           /\ ~ReducesToLiterals(n, queries[j].fnDecl)
           /\ \E k \in 1..Len(queries[j].lrSteps) :
                 /\ queries[j].lrSteps[k].how = "reentered"
                 /\ ~queries[j].nodeLRResults[queries[j].lrSteps[k].node]

----------------------------------------------------------------------------
\* the assignments in the function whose target is the symbol itself
DirectAssignments(fnDecl, symbol) ==
  {a \in NodesIn(fnDecl) :
     /\ getKind(a) = "BinaryExpression"
     /\ N(a \o <<2>>).text \in AssignmentOperators
     /\ getKind(a \o <<1>>) = "Identifier"
     /\ N(a \o <<1>>).sym = symbol}

\* the assignments to the symbol of an identifier of the argument whose right-hand
\* side is not literal-reducible
TaintingAssignments(q) ==
  UNION {{a \in DirectAssignments(q.fnDecl, N(id).sym) : ~ReducesToLiterals(a \o <<3>>, q.fnDecl)} :
           id \in {d \in IdentifiersOf(q.callParam) : N(d).sym # Nothing}}

\* C29: the order of the statements makes no difference to the assignments that
\* are traced: when an assignment to the symbol of an identifier, anywhere in the
\* function and also after the raw-query call, has a right-hand side that is not
\* literal-reducible, every raw query of the function that is checked with that
\* identifier in its argument is found not literal-reducible and reported.
AssignmentOrderInsensitive ==
  Ended =>
    \A j \in 1..Len(queries) :
       TaintingAssignments(queries[j]) # {}
       => /\ ~queries[j].wasLR
          /\ Reported(queries[j].call, "sqlInjection")

\* a raw query was reported whose argument is an identifier with one assignment of a
\* value that is not literal-reducible, which comes after the call in the function
AssignmentOrderInsensitiveWitness ==
  /\ pc = "done"
  /\ \E j \in 1..Len(queries) :
        /\ getKind(queries[j].callParam) = "Identifier"
        /\ TaintingAssignments(queries[j]) # {}
        /\ \A a \in TaintingAssignments(queries[j]) : ComesBefore(queries[j].call, a)
        /\ Reported(queries[j].call, "sqlInjection")

----------------------------------------------------------------------------
\* the assignment is to a parameter of the function or to a property of one
AssignsToOwnParameter(e) ==
  /\ IsAssignmentToIdentifier(e.node)
  /\ OwnParameter(e.fnDecl, LeftmostBase(e.node \o <<1>>))

\* C30: no frame of a function's stack ever holds the symbol of a parameter of the
\* function, and every assignment of a Workflow function to a parameter, or to a
\* property of a parameter, is reported as globalMutation.
ParameterMutationReported ==
  Ended =>
    \A i \in 1..Len(log) :
       LET e == log[i]
       IN  /\ \A k \in Range(getParameters(e.fnDecl)) :
                 getNodeSymbol(k) # Nothing => InNoFrame(getNodeSymbol(k), e.stack)
           /\ (IsWorkflow(e.fnDecl) /\ AssignsToOwnParameter(e))
              => Reported(e.node, "globalMutation")

====
